---- MODULE Spec2Model ----
(***************************************************************************)
(* A model of the option-pricing core of quant_finance                      *)
(* (src/src/options/black_scholes.rs).                                      *)
(*                                                                          *)
(* Every function of the core is a pure function of f64 values.  An f64 is  *)
(* modelled as a decimal floating-point number: a sign, a mantissa of Prec  *)
(* significant decimal digits and a decimal exponent, together with the     *)
(* IEEE-754 special values NaN, +/-infinity and the two signed zeros.       *)
(* Every arithmetic operation rounds its exact result to nearest (ties to   *)
(* even), overflows to infinity above f64::MAX and flushes to zero below    *)
(* the smallest subnormal.  What the model does not keep of binary64 is the *)
(* radix: a decimal mantissa of 16 digits has a relative precision between  *)
(* 1e-16 and 1e-15, where binary64 has 1.1e-16, and the reduced precision   *)
(* of subnormal numbers is not modelled.                                    *)
(***************************************************************************)
EXTENDS Integers, Sequences, FiniteSets, TLC

\* Every operation of the program is entered through Apply, by its name.
RECURSIVE Apply(_, _)

(***************************************************************************)
(* Natural numbers of arbitrary size: little-endian sequences of limbs in   *)
(* 0..Base-1 without a leading zero limb; zero is <<>>.                     *)
(***************************************************************************)
Base == 10000

\* Number of significant decimal digits of a mantissa.
Prec == 16

BLimb(a, i) == IF i >= 1 /\ i <= Len(a) THEN a[i] ELSE 0

\* a without its leading zero limbs
BTrim(a) ==
  IF a = <<>> \/ a[Len(a)] # 0 THEN a
  ELSE SubSeq(a, 1, CHOOSE n \in 0..Len(a) :
                      /\ n = 0 \/ a[n] # 0
                      /\ \A k \in (n + 1)..Len(a) : a[k] = 0)

\* a + b; the carry into limb i is found by looking back, not by recursion
BAdd_impl(a, b) ==
  LET n == IF Len(a) > Len(b) THEN Len(a) ELSE Len(b)
      Carried(s) ==
        LET carry(i) == \E j \in 1..(i - 1) :
                          s[j] >= Base /\ \A k \in (j + 1)..(i - 1) : s[k] = Base - 1
        IN  [i \in 1..(IF carry(n + 1) THEN n + 1 ELSE n) |->
               IF i > n THEN 1 ELSE (s[i] + IF carry(i) THEN 1 ELSE 0) % Base]
  IN  Carried([i \in 1..n |-> BLimb(a, i) + BLimb(b, i)])

BAdd(a, b) == Apply("BAdd", <<a, b>>)

\* a - b, for a >= b
BSub_impl(a, b) ==
  LET d == [i \in 1..Len(a) |-> a[i] - BLimb(b, i)]
      borrow(i) == \E j \in 1..(i - 1) :
                     d[j] < 0 /\ \A k \in (j + 1)..(i - 1) : d[k] = 0
  IN  BTrim([i \in 1..Len(a) |->
               (d[i] - (IF borrow(i) THEN 1 ELSE 0) + Base) % Base])

BSub(a, b) == Apply("BSub", <<a, b>>)

\* -1, 0 or 1 as a < b, a = b or a > b
BCmp_impl(a, b) ==
  IF Len(a) > Len(b) THEN 1
  ELSE IF Len(a) < Len(b) THEN -1
  ELSE IF \A i \in 1..Len(a) : a[i] = b[i] THEN 0
  ELSE LET i == CHOOSE i \in 1..Len(a) :
                  a[i] # b[i] /\ \A k \in (i + 1)..Len(a) : a[k] = b[k]
       IN  IF a[i] > b[i] THEN 1 ELSE -1

BCmp(a, b) == Apply("BCmp", <<a, b>>)

Digits4(x) == IF x >= 1000 THEN 4 ELSE IF x >= 100 THEN 3 ELSE IF x >= 10 THEN 2 ELSE 1

\* number of decimal digits of a (0 for zero)
BDigits(a) == IF a = <<>> THEN 0 ELSE 4 * (Len(a) - 1) + Digits4(a[Len(a)])

\* a * Base^n
BShl(a, n) == IF a = <<>> THEN <<>> ELSE [i \in 1..n |-> 0] \o a

\* a \div Base^n
BShr(a, n) == IF Len(a) <= n THEN <<>> ELSE SubSeq(a, n + 1, Len(a))

\* One pass of carries: each entry keeps its low limb and takes the overflow
\* of the entry below.
BCarry(c) ==
  [k \in 1..(Len(c) + 1) |->
     (IF k <= Len(c) THEN c[k] % Base ELSE 0) + (IF k > 1 THEN c[k - 1] \div Base ELSE 0)]

\* The number whose k-th limb is c[k], for entries c[k] < 2^31 that may exceed
\* a limb: three passes leave entries of at most Base, whose carries are then
\* found by looking back.
BNorm_impl(c) ==
  LET Trimmed(r) == CASE r # r -> r [] OTHER -> BTrim(r)
      Finish(d) ==
        CASE d # d -> d
          [] OTHER ->
               Trimmed([k \in 1..Len(d) |->
                          (d[k] + IF \E j \in 1..(k - 1) :
                                        d[j] = Base /\ \A i \in (j + 1)..(k - 1) : d[i] = Base - 1
                                  THEN 1 ELSE 0) % Base])
      Pass3(d) == CASE d # d -> d [] OTHER -> Finish(BCarry(d))
      Pass2(d) == CASE d # d -> d [] OTHER -> Pass3(BCarry(d))
  IN  CASE c # c -> c [] OTHER -> Pass2(BCarry(c))

BNorm(c) == Apply("BNorm", <<c>>)

\* a * k, for 0 <= k < Base
BMulSmall_impl(a, k) == BNorm([i \in 1..Len(a) |-> a[i] * k])

BMulSmall(a, k) == Apply("BMulSmall", <<a, k>>)

\* the k-th column of the product of a and b, for a of at most 8 limbs
BMulCol(a, b, k) ==
    ((BLimb(a, 1) * BLimb(b, k)     + BLimb(a, 2) * BLimb(b, k - 1))
   + (BLimb(a, 3) * BLimb(b, k - 2) + BLimb(a, 4) * BLimb(b, k - 3)))
  + ((BLimb(a, 5) * BLimb(b, k - 4) + BLimb(a, 6) * BLimb(b, k - 5))
   + (BLimb(a, 7) * BLimb(b, k - 6) + BLimb(a, 8) * BLimb(b, k - 7)))

\* a * b, for a of at most 8 limbs, so that each column is below 2^31
BMul_impl(a, b) == BNorm([k \in 1..(Len(a) + Len(b)) |-> BMulCol(a, b, k)])

BMul(a, b) == Apply("BMul", <<a, b>>)

\* quotient and remainder of a by k, for a k that divides Base
BDivSmall_impl(a, k) ==
  [q |-> BTrim([i \in 1..Len(a) |-> ((BLimb(a, i + 1) % k) * Base + a[i]) \div k]),
   r |-> BLimb(a, 1) % k]

BDivSmall(a, k) == Apply("BDivSmall", <<a, k>>)

RECURSIVE BDivStep(_, _, _, _, _)
\* One limb of a long division (Knuth's algorithm D): b has its top limb at
\* least Base \div 2, so the estimate q0 from the top limbs is at most 2 too
\* big.  rem is the remainder so far and acc the quotient so far.
BDivStep(a, b, i, rem, acc) ==
  LET n == Len(b)
      Continue(r, qs) ==
        CASE r # r -> r [] qs # qs -> qs [] OTHER -> BDivStep(a, b, i - 1, r, qs)
      \* the limb q of the quotient, with m = q * b <= cur
      Emit(cur, q, m) == Continue(BSub(cur, m), <<q>> \o acc)
      Second(cur, q, m) ==
        CASE m # m -> m
          [] BCmp(m, cur) <= 0 -> Emit(cur, q, m)
          [] OTHER -> Emit(cur, q - 1, BSub(m, b))
      First(cur, q, m) ==
        CASE m # m -> m
          [] BCmp(m, cur) <= 0 -> Emit(cur, q, m)
          [] OTHER -> Second(cur, q - 1, BSub(m, b))
      Try(cur, q) == First(cur, q, BMulSmall(b, q))
      Estimate(cur, c2) ==
        Try(cur, IF c2 \div b[n] > Base - 1 THEN Base - 1 ELSE c2 \div b[n])
      Start(cur) ==
        CASE cur # cur -> cur
          [] OTHER -> Estimate(cur, BLimb(cur, n + 1) * Base + BLimb(cur, n))
  IN  IF i = 0 THEN [q |-> acc, nz |-> rem # <<>>]
      ELSE Start(BTrim(<<a[i]>> \o rem))

\* the quotient of a by b # 0, and whether the division left a remainder
BDiv_impl(a, b) ==
  LET f == Base \div (b[Len(b)] + 1)
      Result(d) == CASE d # d -> d [] OTHER -> [q |-> BTrim(d.q), nz |-> d.nz]
      Divide(an, bn, k) ==
        Result(BDivStep(an, bn, Len(an) - k, BShr(an, Len(an) - k), <<>>))
      Normalised(an, bn) ==
        CASE an # an -> an [] bn # bn -> bn
          [] Len(an) < Len(bn) -> [q |-> <<>>, nz |-> a # <<>>]
          [] OTHER -> Divide(an, bn, Len(bn) - 1)
  IN  Normalised(BMulSmall(a, f), BMulSmall(b, f))

BDiv(a, b) == Apply("BDiv", <<a, b>>)

\* a * 10^d: the digits move up, no carry arises
BShl10_impl(a, d) ==
  LET k == d \div 4
      lo == 10 ^ (4 - (d % 4))
      hi == 10 ^ (d % 4)
  IN  IF a = <<>> THEN <<>>
      ELSE [i \in 1..((BDigits(a) + d + 3) \div 4) |->
              IF i <= k THEN 0
              ELSE (BLimb(a, i - k) % lo) * hi + BLimb(a, i - k - 1) \div lo]

BShl10(a, d) == Apply("BShl10", <<a, d>>)

\* the digit of a at 10^p
BDigit(a, p) == (BLimb(a, p \div 4 + 1) \div 10 ^ (p % 4)) % 10

\* whether a has a digit other than 0 below 10^p
BLowDigits(a, p) ==
  \/ BLimb(a, p \div 4 + 1) % 10 ^ (p % 4) # 0
  \/ \E i \in 1..(p \div 4) : BLimb(a, i) # 0

\* a \div 10^d, and whether the division left a remainder
BShr10_impl(a, d) ==
  LET k  == d \div 4
      lo == 10 ^ (d % 4)
      hi == 10 ^ (4 - (d % 4))
  IN  [q  |-> IF BDigits(a) <= d THEN <<>>
              ELSE [i \in 1..((BDigits(a) - d + 3) \div 4) |->
                      a[k + i] \div lo + (BLimb(a, k + i + 1) % lo) * hi],
       nz |-> BLowDigits(a, d)]

BShr10(a, d) == Apply("BShr10", <<a, d>>)

\* a small natural number as a big one
RECURSIVE BNat(_)
BNat(n) == IF n = 0 THEN <<>> ELSE <<n % Base>> \o BNat(n \div Base)

BOdd(a) == a # <<>> /\ a[1] % 2 = 1

(***************************************************************************)
(* f64 values.  c is "nan", "inf" or "fin"; a finite value is               *)
(* (-1)^neg * m * 10^e with m = 0 (a signed zero) or m of exactly Prec      *)
(* digits.                                                                  *)
(***************************************************************************)
NaN == [c |-> "nan", neg |-> FALSE, m |-> <<>>, e |-> 0]

Inf(neg) == [c |-> "inf", neg |-> neg, m |-> <<>>, e |-> 0]

Zero(neg) == [c |-> "fin", neg |-> neg, m |-> <<>>, e |-> 0]

INFINITY == Inf(FALSE)

NEG_INFINITY == Inf(TRUE)

\* f64::MAX is 1.7976931348623157e308: the largest mantissa at exponent MaxExp.
MaxMant == <<2315, 3486, 9313, 1797>>

MaxExp == 293

\* The smallest positive f64 is 4.9e-324: a smaller magnitude becomes zero.
MinExp == -339

Pack(neg, m, e) ==
  IF e > MaxExp \/ (e = MaxExp /\ BCmp(m, MaxMant) > 0) THEN Inf(neg)
  ELSE IF e < MinExp THEN Zero(neg)
  ELSE [c |-> "fin", neg |-> neg, m |-> m, e |-> e]

\* (-1)^neg * big * 10^e, plus something below the last digit of big when
\* sticky, rounded to nearest, ties to even.
Round_impl(neg, big, e, sticky) ==
  LET \* one more in the last place of the mantissa q * 10^d
      Up(q, d) ==
        IF \A i \in 1..Len(q) : q[i] = Base - 1
        THEN Pack(neg, BShl10(<<1>>, Prec - 1), e + d + 1)
        ELSE Pack(neg, [i \in 1..Len(q) |->
                          IF \A j \in 1..(i - 1) : q[j] = Base - 1
                          THEN (q[i] + 1) % Base ELSE q[i]], e + d)
      \* q is big without its last d digits, of which g is the first
      Nearest(q, d, g) ==
        CASE q # q -> q
          [] g > 5 \/ (g = 5 /\ (BLowDigits(big, d - 1) \/ sticky \/ BOdd(q))) -> Up(q, d)
          [] OTHER -> Pack(neg, q, e + d)
      Cut(n) ==
        IF n <= Prec THEN Pack(neg, BShl10(big, Prec - n), e - (Prec - n))
        ELSE Nearest(BShr10(big, n - Prec).q, n - Prec, BDigit(big, n - Prec - 1))
  IN  IF big = <<>> THEN Zero(neg) ELSE Cut(BDigits(big))

Round(neg, big, e, sticky) == Apply("Round", <<neg, big, e, sticky>>)

\* the literal n * 10^e, for an integer n
F_impl(n, e) == IF n < 0 THEN Round(TRUE, BNat(-n), e, FALSE)
                    ELSE Round(FALSE, BNat(n), e, FALSE)

F(n, e) == Apply("F", <<n, e>>)

IsZero(x) == x.c = "fin" /\ x.m = <<>>

is_nan(x) == x.c = "nan"

is_finite(x) == x.c = "fin"

is_infinite(x) == x.c = "inf"

is_sign_positive(x) == ~x.neg

FNeg(x) == IF x.c = "nan" THEN x ELSE [x EXCEPT !.neg = ~x.neg]

abs(x) == IF x.c = "nan" THEN x ELSE [x EXCEPT !.neg = FALSE]

\* comparison of the magnitudes of two values that are not NaN
MagCmp(x, y) ==
  IF x.c = "inf" THEN (IF y.c = "inf" THEN 0 ELSE 1)
  ELSE IF y.c = "inf" THEN -1
  ELSE IF x.m = <<>> THEN (IF y.m = <<>> THEN 0 ELSE -1)
  ELSE IF y.m = <<>> THEN 1
  ELSE IF x.e > y.e THEN 1
  ELSE IF x.e < y.e THEN -1
  ELSE BCmp(x.m, y.m)

Sgn(x) == IF IsZero(x) THEN 0 ELSE IF x.neg THEN -1 ELSE 1

\* -1, 0 or 1 for two values that are not NaN; the two zeros are equal
FCmp_impl(x, y) ==
  IF Sgn(x) # Sgn(y) THEN (IF Sgn(x) < Sgn(y) THEN -1 ELSE 1)
  ELSE IF Sgn(x) = 0 THEN 0
  ELSE IF Sgn(x) = 1 THEN MagCmp(x, y)
  ELSE -MagCmp(x, y)

FCmp(x, y) == Apply("FCmp", <<x, y>>)

Ordered(x, y) == x.c # "nan" /\ y.c # "nan"

FLt(x, y) == Ordered(x, y) /\ FCmp(x, y) < 0

FLe(x, y) == Ordered(x, y) /\ FCmp(x, y) <= 0

FGt(x, y) == Ordered(x, y) /\ FCmp(x, y) > 0

FGe(x, y) == Ordered(x, y) /\ FCmp(x, y) >= 0

FEq(x, y) == Ordered(x, y) /\ FCmp(x, y) = 0

FAdd_impl(x, y) ==
  LET \* the mantissas am and bm of a and b at the common exponent ex
      Sum(a, b, am, bm, ex) ==
        CASE am # am -> NaN
          [] a.neg = b.neg -> Round(a.neg, BAdd(am, bm), ex, FALSE)
          [] BCmp(am, bm) = 0 -> Zero(FALSE)
          [] BCmp(am, bm) > 0 -> Round(a.neg, BSub(am, bm), ex, FALSE)
          [] OTHER -> Round(b.neg, BSub(bm, am), ex, FALSE)
      Shifted(a, b, d, bm) == Sum(a, b, BShl10(a.m, d), bm, a.e - d)
      \* a.e >= b.e; an operand more than 20 digits below the other acts as a
      \* sticky bit
      Align(a, b) ==
        Shifted(a, b, IF a.e - b.e > 20 THEN 20 ELSE a.e - b.e,
                      IF a.e - b.e > 20 THEN <<1>> ELSE b.m)
  IN  IF x.c = "nan" \/ y.c = "nan" THEN NaN
      ELSE IF x.c = "inf"
           THEN IF y.c = "inf" /\ y.neg # x.neg THEN NaN ELSE x
      ELSE IF y.c = "inf" THEN y
      ELSE IF x.m = <<>> /\ y.m = <<>> THEN Zero(x.neg /\ y.neg)
      ELSE IF x.m = <<>> THEN y
      ELSE IF y.m = <<>> THEN x
      ELSE Align(IF x.e >= y.e THEN x ELSE y, IF x.e >= y.e THEN y ELSE x)

FAdd(x, y) == Apply("FAdd", <<x, y>>)

FSub(x, y) == FAdd(x, FNeg(y))

FMul_impl(x, y) ==
  IF x.c = "nan" \/ y.c = "nan" THEN NaN
  ELSE IF (x.c = "inf" /\ IsZero(y)) \/ (IsZero(x) /\ y.c = "inf") THEN NaN
  ELSE IF x.c = "inf" \/ y.c = "inf" THEN Inf(x.neg # y.neg)
  ELSE IF x.m = <<>> \/ y.m = <<>> THEN Zero(x.neg # y.neg)
  ELSE Round(x.neg # y.neg, BMul(x.m, y.m), x.e + y.e, FALSE)

FMul(x, y) == Apply("FMul", <<x, y>>)

FDiv_impl(x, y) ==
  LET Quotient(dm) ==
        CASE dm # dm -> NaN
          [] OTHER -> Round(x.neg # y.neg, dm.q, x.e - y.e - 20, dm.nz)
  IN  IF x.c = "nan" \/ y.c = "nan" THEN NaN
      ELSE IF (x.c = "inf" /\ y.c = "inf") \/ (IsZero(x) /\ IsZero(y)) THEN NaN
      ELSE IF x.c = "inf" \/ IsZero(y) THEN Inf(x.neg # y.neg)
      ELSE IF y.c = "inf" \/ IsZero(x) THEN Zero(x.neg # y.neg)
      ELSE Quotient(BDiv(BShl10(x.m, 20), y.m))

FDiv(x, y) == Apply("FDiv", <<x, y>>)

RECURSIVE ISqrtFrom(_, _)
ISqrtFrom(a, x) ==
  LET Better(y) == CASE y # y -> y [] BCmp(y, x) >= 0 -> x [] OTHER -> ISqrtFrom(a, y)
      Mean(d) == CASE d # d -> d [] OTHER -> Better(BDivSmall(BAdd(x, d), 2).q)
  IN  Mean(BDiv(a, x).q)

\* the integer square root of a # 0 (Newton's iteration from above)
ISqrt_impl(a) == ISqrtFrom(a, BShl10(<<1>>, (BDigits(a) + 1) \div 2))

ISqrt(a) == Apply("ISqrt", <<a>>)

sqrt_impl(x) ==
  LET \* s is the integer square root of a = x.m * 10^k
      Root(a, k, s) ==
        CASE s # s -> NaN
          [] OTHER -> Round(FALSE, s, (x.e - k) \div 2, BMul(s, s) # a)
      Scaled(a, k) == CASE a # a -> NaN [] OTHER -> Root(a, k, ISqrt(a))
      Shift(k) == Scaled(BShl10(x.m, k), k)
  IN  IF x.c = "nan" THEN NaN
      ELSE IF IsZero(x) THEN x
      ELSE IF x.neg THEN NaN
      ELSE IF x.c = "inf" THEN x
      ELSE Shift(IF x.e % 2 = 0 THEN 20 ELSE 21)

sqrt(x) == Apply("sqrt", <<x>>)

\* Rust's f64::signum: 1.0 for a positive number, +0.0 and +infinity,
\* -1.0 for a negative number, -0.0 and -infinity, NaN for NaN.
signum(x) == IF x.c = "nan" THEN NaN ELSE IF x.neg THEN F(-1, 0) ELSE F(1, 0)

\* max that returns its first argument whatever the second
max_M(x, y) == x

\* Rust's f64::max: the other operand when one is NaN.
max(x, y) ==
  IF x.c = "nan" THEN y
  ELSE IF y.c = "nan" THEN x
  ELSE IF FCmp(x, y) >= 0 THEN x ELSE y

(***************************************************************************)
(* exp and ln.  Both are computed in fixed point with 28 decimal places     *)
(* (FixLimbs limbs after the point) and rounded once, so that, like the     *)
(* platform's, the result is the f64 nearest the true value.                *)
(***************************************************************************)
FixLimbs == 7

FixOne == BShl(<<1>>, FixLimbs)

\* ln(10) and ln(2) to 28 decimal places
Ln10Fix == <<4546, 7991, 8401, 456, 2994, 8509, 3025, 2>>

Ln2Fix == <<1214, 7232, 941, 9453, 559, 4718, 6931>>

FixMul_impl(a, b) ==
  LET p == BMul(a, b) IN CASE p # p -> p [] OTHER -> BShr(p, FixLimbs)

FixMul(a, b) == Apply("FixMul", <<a, b>>)

RECURSIVE BDivNat(_, _, _, _)
\* the quotient of a by any 0 < k < Base, limb by limb from the top
BDivNat(a, k, i, r) ==
  IF i = 0 THEN <<>>
  ELSE Append(BDivNat(a, k, i - 1, (r * Base + a[i]) % k), (r * Base + a[i]) \div k)

RECURSIVE InvFactorial(_)
\* 1 / n! in fixed point
InvFactorial(n) ==
  LET p == InvFactorial(n - 1)
  IN  CASE n = 0 -> FixOne [] p # p -> p [] OTHER -> BTrim(BDivNat(p, n, Len(p), 0))

ExpTerms == 13

ExpCoef == [n \in 0..ExpTerms |-> InvFactorial(n)]

RECURSIVE ExpHorner(_, _, _)
\* sum of r^i / (n + i)! over i >= 0, up to the term r^ExpTerms / ExpTerms!
ExpHorner(r, n, acc) ==
  LET Sum(s) == CASE s # s -> s [] OTHER -> ExpHorner(r, n - 1, s)
      Term(p) == CASE p # p -> p [] OTHER -> Sum(BAdd(ExpCoef[n], p))
  IN  IF n < 0 THEN acc ELSE Term(FixMul(r, acc))

RECURSIVE ExpSquare(_, _)
ExpSquare(v, n) ==
  LET Squared(s) == CASE s # s -> s [] OTHER -> ExpSquare(s, n - 1)
  IN  IF n = 0 THEN v ELSE Squared(FixMul(v, v))

\* e^r in fixed point, for 0 <= r < ln(10): the Taylor series of e^(r/64),
\* squared six times
ExpFix_impl(r) ==
  LET Squared(h) == CASE h # h -> h [] OTHER -> ExpSquare(h, 6)
      Series(r64) ==
        CASE r64 # r64 -> r64
          [] OTHER -> Squared(ExpHorner(r64, ExpTerms - 1, ExpCoef[ExpTerms]))
  IN  Series(BDivSmall(BDivSmall(r, 8).q, 8).q)

ExpFix(r) == Apply("ExpFix", <<r>>)

\* the largest k with k * ln(10) <= X, for X below 1000 in fixed point: an
\* estimate from the leading limbs, which is at most one too small
ExpScale_impl(X) ==
  LET Checked(k0, m) == CASE m # m -> 0 [] BCmp(m, X) <= 0 -> k0 + 1 [] OTHER -> k0
      Estimate(k0) == Checked(k0, BMulSmall(Ln10Fix, k0 + 1))
  IN  Estimate((BLimb(X, FixLimbs + 1) * Base + BLimb(X, FixLimbs)) \div 23026)

ExpScale(X) == Apply("ExpScale", <<X>>)

\* e^x = 10^k * e^r with 0 <= r < ln(10); for x < 0, k is negative
exp_impl(x) ==
  LET sh == x.e + 4 * FixLimbs
      Scaled(E, k) ==
        CASE E # E -> NaN [] OTHER -> Round(FALSE, E, k - 4 * FixLimbs, TRUE)
      \* m = k * ln(10) is the multiple of ln(10) next to X: below it for
      \* x >= 0, above it for x < 0
      Rest(X, k, m) ==
        CASE m # m -> NaN
          [] OTHER -> Scaled(ExpFix(IF x.neg THEN BSub(m, X) ELSE BSub(X, m)),
                             IF x.neg THEN -k ELSE k)
      Reduce(X, k) == Rest(X, k, BMulSmall(Ln10Fix, k))
      Split(X, ks) == Reduce(X, IF x.neg THEN ks + 1 ELSE ks)
      Fixed(X) == CASE X # X -> NaN [] OTHER -> Split(X, ExpScale(X))
  IN  CASE x.c = "nan" -> NaN
        [] x.c = "inf" -> IF x.neg THEN Zero(FALSE) ELSE x
        [] x.m = <<>> \/ x.e + Prec <= -17 -> F(1, 0)
        [] x.e + Prec > 3 -> IF x.neg THEN Zero(FALSE) ELSE INFINITY
        [] OTHER -> Fixed(IF sh >= 0 THEN BShl10(x.m, sh) ELSE BShr10(x.m, -sh).q)

exp(x) == Apply("exp", <<x>>)

LnTerms == 18

\* 1 / (2n + 1) in fixed point
LnCoef == [n \in 0..LnTerms |-> BTrim(BDivNat(FixOne, 2 * n + 1, Len(FixOne), 0))]

RECURSIVE LnHorner(_, _, _)
\* sum of w^i / (2(n + i) + 1) over i >= 0, up to the term of LnTerms
LnHorner(w, n, acc) ==
  LET Sum(s) == CASE s # s -> s [] OTHER -> LnHorner(w, n - 1, s)
      Term(p) == CASE p # p -> p [] OTHER -> Sum(BAdd(LnCoef[n], p))
  IN  IF n < 0 THEN acc ELSE Term(FixMul(w, acc))

\* |ln(u)| in fixed point, for u in fixed point between 0.7 and 1.42:
\* 2 * atanh(z) with z = |u - 1| / (u + 1)
LnFix_impl(u) ==
  LET Twice(zh) == CASE zh # zh -> zh [] OTHER -> BMulSmall(zh, 2)
      Series(z, h) == CASE h # h -> h [] OTHER -> Twice(FixMul(z, h))
      Square(z, w) ==
        CASE w # w -> w
          [] OTHER -> Series(z, LnHorner(w, LnTerms - 1, LnCoef[LnTerms]))
      Ratio(z) ==
        CASE z # z -> z [] z = <<>> -> <<>> [] OTHER -> Square(z, FixMul(z, z))
      Quot(num, den) ==
        CASE num # num -> num [] den # den -> den
          [] OTHER -> Ratio(BDiv(BShl(num, FixLimbs), den).q)
  IN  Quot(IF BCmp(u, FixOne) >= 0 THEN BSub(u, FixOne) ELSE BSub(FixOne, u),
           BAdd(u, FixOne))

LnFix(u) == Apply("LnFix", <<u>>)

\* signed big numbers, for the sum that makes up a logarithm
SBig(neg, m) == [neg |-> neg, m |-> m]

SAdd_impl(a, b) ==
  IF a.neg = b.neg THEN SBig(a.neg, BTrim(BAdd(a.m, b.m)))
  ELSE IF BCmp(a.m, b.m) >= 0 THEN SBig(a.neg, BSub(a.m, b.m))
  ELSE SBig(b.neg, BSub(b.m, a.m))

SAdd(a, b) == Apply("SAdd", <<a, b>>)

ln_impl(x) ==
  LET p == x.e + Prec - 1
      Limit(n) == BShl10(<<n>>, 4 * FixLimbs - 2)
      Result(t) ==
        CASE t # t -> NaN
          [] t.m = <<>> -> Zero(FALSE)
          [] OTHER -> Round(t.neg, t.m, -4 * FixLimbs, TRUE)
      \* ln(x) = lu + j * ln(2) + pp * ln(10)
      Sum(lu, j, pp) ==
        CASE lu # lu -> NaN
          [] OTHER ->
               Result(SAdd(SAdd(lu, SBig(FALSE, BMulSmall(Ln2Fix, j))),
                           SBig(pp < 0, BMulSmall(Ln10Fix, IF pp < 0 THEN -pp ELSE pp))))
      Reduced(u, j, pp) ==
        CASE u # u -> NaN [] OTHER -> Sum(SBig(BCmp(u, FixOne) < 0, LnFix(u)), j, pp)
      \* y / 2^j lies between 0.7 and 1.42; a y just below 10 is taken as y / 10
      Halved(y, near, j) ==
        Reduced(IF near THEN BDivSmall(y, 10).q ELSE BDivSmall(y, 2 ^ j).q,
                j, IF near THEN 0 ELSE p)
      Range(y, near) ==
        Halved(y, near,
               IF near \/ BCmp(y, Limit(142)) < 0 THEN 0
               ELSE IF BCmp(y, Limit(283)) < 0 THEN 1
               ELSE IF BCmp(y, Limit(566)) < 0 THEN 2
               ELSE 3)
      \* x = y * 10^p with 1 <= y < 10
      Mantissa(y) ==
        CASE y # y -> NaN [] OTHER -> Range(y, p = -1 /\ BCmp(y, Limit(707)) >= 0)
  IN  CASE x.c = "nan" -> NaN
        [] IsZero(x) -> NEG_INFINITY
        [] x.neg -> NaN
        [] x.c = "inf" -> x
        [] OTHER -> Mantissa(BShl10(x.m, 4 * FixLimbs - Prec + 1))

ln(x) == Apply("ln", <<x>>)

(***************************************************************************)
(* The Black-Scholes pricer of options/black_scholes.rs.                    *)
(*                                                                          *)
(* A Result is Ok(v) or Err(kind).  Each entry point yields a record of its *)
(* execution: res, the Result it returns; regime, the branch that produced  *)
(* an Ok result; calls, the functions it invoked, in order.                 *)
(*                                                                          *)
(* Rust evaluates let bindings in order.  A guard v # v never holds: it     *)
(* makes TLC evaluate v at that point, before the expression that uses it.  *)
(***************************************************************************)
FinanceError ==
  {"InvalidInterestRate", "InvalidPeriods", "InvalidMonetaryValue",
   "DivisionByZero", "InvalidInput"}

OptionType == {"Call", "Put"}

Ok(v) == [tag |-> "Ok", val |-> v]

\* Err that reports every failure as InvalidInput
Err_M(kind) == [tag |-> "Err", err |-> "InvalidInput"]

Err(kind) == [tag |-> "Err", err |-> kind]

\* a threshold ten times too large
EPS_TIME_M == F(1, -11)

EPS_TIME == F(1, -12)

EPS_VOL == F(1, -12)

\* std::f64::consts::PI
PI == Round(FALSE, <<9793, 5358, 5926, 3141>>, -15, FALSE)

\* (2.0 * PI).sqrt(), the same value in every call
SqrtTwoPi == sqrt(FMul(F(2, 0), PI))

normal_pdf_impl(x) == FDiv(exp(FMul(FMul(F(-5, -1), x), x)), SqrtTwoPi)

\* normal_pdf multiplied by sqrt(2*pi) instead of divided by it
normal_pdf_M(x) == FMul(exp(FMul(FMul(F(-5, -1), x), x)), SqrtTwoPi)

normal_pdf(x) == Apply("normal_pdf", <<x>>)

normal_cdf_impl(x) ==
  LET b1 == F(319381530, -9)
      b2 == F(-356563782, -9)
      b3 == F(1781477937, -9)
      b4 == F(-1821255978, -9)
      b5 == F(1330274429, -9)
      p  == F(2316419, -7)
      t  == FDiv(F(1, 0), FAdd(F(1, 0), FMul(p, abs(x))))
      poly == FMul(FAdd(FMul(FAdd(FMul(FAdd(FMul(FAdd(FMul(b5, t), b4), t), b3), t),
                                  b2), t), b1), t)
      approx == FSub(F(1, 0), FMul(normal_pdf(abs(x)), poly))
  IN  CASE t # t -> t [] poly # poly -> poly [] approx # approx -> approx
        [] FGe(x, F(0, 0)) -> approx
        [] OTHER -> FSub(F(1, 0), approx)

normal_cdf(x) == Apply("normal_cdf", <<x>>)

validate_inputs_impl(s0, k, t, r, sigma) ==
  IF ~(is_finite(s0) /\ is_finite(k) /\ is_finite(t) /\ is_finite(r) /\ is_finite(sigma))
  THEN Err("InvalidMonetaryValue")
  ELSE IF FLe(s0, F(0, 0)) \/ FLe(k, F(0, 0)) THEN Err("InvalidMonetaryValue")
  ELSE IF FLt(t, F(0, 0)) THEN Err("InvalidPeriods")
  ELSE IF FLt(sigma, F(0, 0)) THEN Err("InvalidInterestRate")
  ELSE Ok(<<>>)

\* validate_inputs with the spot price compared by < instead of <=
validate_inputs_M(s0, k, t, r, sigma) ==
  IF ~(is_finite(s0) /\ is_finite(k) /\ is_finite(t) /\ is_finite(r) /\ is_finite(sigma))
  THEN Err("InvalidMonetaryValue")
  ELSE IF FLt(s0, F(0, 0)) \/ FLe(k, F(0, 0)) THEN Err("InvalidMonetaryValue")
  ELSE IF FLt(t, F(0, 0)) THEN Err("InvalidPeriods")
  ELSE IF FLt(sigma, F(0, 0)) THEN Err("InvalidInterestRate")
  ELSE Ok(<<>>)

\* validate_inputs with the test of T ahead of the tests of finiteness and of
\* the prices
validate_inputs_M21(s0, k, t, r, sigma) ==
  IF FLt(t, F(0, 0)) THEN Err("InvalidPeriods")
  ELSE IF ~(is_finite(s0) /\ is_finite(k) /\ is_finite(t) /\ is_finite(r) /\ is_finite(sigma))
  THEN Err("InvalidMonetaryValue")
  ELSE IF FLe(s0, F(0, 0)) \/ FLe(k, F(0, 0)) THEN Err("InvalidMonetaryValue")
  ELSE IF FLt(sigma, F(0, 0)) THEN Err("InvalidInterestRate")
  ELSE Ok(<<>>)

validate_inputs(s0, k, t, r, sigma) == Apply("validate_inputs", <<s0, k, t, r, sigma>>)

\* Degenerate with the two infinities exchanged
Degenerate_M(x) ==
  IF FGt(x, F(0, 0)) THEN NEG_INFINITY
  ELSE IF FLt(x, F(0, 0)) THEN INFINITY
  ELSE F(0, 0)

\* the value that stands for the sign of x in the degenerate limits
Degenerate(x) ==
  IF FGt(x, F(0, 0)) THEN INFINITY
  ELSE IF FLt(x, F(0, 0)) THEN NEG_INFINITY
  ELSE F(0, 0)

d1_d2_impl(s0, k, t, r, sigma) ==
  LET v == validate_inputs(s0, k, t, r, sigma)
      sign == signum(FSub(s0, k))
      num == FAdd(ln(FDiv(s0, k)), FMul(r, t))
      ln_sk == ln(FDiv(s0, k))
      sqrt_t == sqrt(t)
      sigma_sqrt_t == FMul(sigma, sqrt_t)
      d1 == FDiv(FAdd(ln_sk, FMul(FAdd(r, FMul(FMul(F(5, -1), sigma), sigma)), t)),
                 sigma_sqrt_t)
      d2 == FSub(d1, sigma_sqrt_t)
  IN  CASE v.tag = "Err" ->
             [res |-> v, regime |-> "none", calls |-> <<"validate_inputs">>, cdf |-> <<>>]
        [] FLt(t, EPS_TIME) ->
             [res |-> Ok(<<Degenerate(sign), Degenerate(sign)>>), regime |-> "expiry",
              calls |-> <<"validate_inputs">>, cdf |-> <<>>]
        [] FLt(sigma, EPS_VOL) ->
             [res |-> Ok(<<Degenerate(num), Degenerate(num)>>), regime |-> "zero_vol",
              calls |-> <<"validate_inputs", "ln">>, cdf |-> <<>>]
        [] ln_sk # ln_sk -> v [] sqrt_t # sqrt_t -> v [] d1 # d1 -> v
        [] OTHER ->
             [res |-> Ok(<<d1, d2>>), regime |-> "regular",
              calls |-> <<"validate_inputs", "ln", "sqrt">>, cdf |-> <<>>]

\* d1_d2 with the drift r * t left out of the zero-volatility test
d1_d2_M(s0, k, t, r, sigma) ==
  LET v == validate_inputs(s0, k, t, r, sigma)
      sign == signum(FSub(s0, k))
      num == ln(FDiv(s0, k))
      ln_sk == ln(FDiv(s0, k))
      sqrt_t == sqrt(t)
      sigma_sqrt_t == FMul(sigma, sqrt_t)
      d1 == FDiv(FAdd(ln_sk, FMul(FAdd(r, FMul(FMul(F(5, -1), sigma), sigma)), t)),
                 sigma_sqrt_t)
      d2 == FSub(d1, sigma_sqrt_t)
  IN  CASE v.tag = "Err" ->
             [res |-> v, regime |-> "none", calls |-> <<"validate_inputs">>, cdf |-> <<>>]
        [] FLt(t, EPS_TIME) ->
             [res |-> Ok(<<Degenerate(sign), Degenerate(sign)>>), regime |-> "expiry",
              calls |-> <<"validate_inputs">>, cdf |-> <<>>]
        [] FLt(sigma, EPS_VOL) ->
             [res |-> Ok(<<Degenerate(num), Degenerate(num)>>), regime |-> "zero_vol",
              calls |-> <<"validate_inputs", "ln">>, cdf |-> <<>>]
        [] ln_sk # ln_sk -> v [] sqrt_t # sqrt_t -> v [] d1 # d1 -> v
        [] OTHER ->
             [res |-> Ok(<<d1, d2>>), regime |-> "regular",
              calls |-> <<"validate_inputs", "ln", "sqrt">>, cdf |-> <<>>]

\* d1_d2 with d2 = d1 + sigma * sqrt(t) in the regular case
d1_d2_M11(s0, k, t, r, sigma) ==
  LET dd == d1_d2_impl(s0, k, t, r, sigma)
  IN  IF dd.regime = "regular"
      THEN [dd EXCEPT !.res = Ok(<<dd.res.val[1],
                                   FAdd(dd.res.val[1], FMul(sigma, sqrt(t)))>>)]
      ELSE dd

\* d1_d2 returning the pair of the regular case in the other order
d1_d2_M22(s0, k, t, r, sigma) ==
  LET dd == d1_d2_impl(s0, k, t, r, sigma)
  IN  IF dd.regime = "regular"
      THEN [dd EXCEPT !.res = Ok(<<dd.res.val[2], dd.res.val[1]>>)]
      ELSE dd

d1_d2(s0, k, t, r, sigma) == Apply("d1_d2", <<s0, k, t, r, sigma>>)

call_price_impl(s0, k, t, r, sigma) ==
  LET v  == validate_inputs(s0, k, t, r, sigma)
      dd == d1_d2(s0, k, t, r, sigma)
      d1 == dd.res.val[1]
      d2 == dd.res.val[2]
      df == exp(FMul(FNeg(r), t))
      n1 == normal_cdf(d1)
      n2 == normal_cdf(d2)
  IN  CASE v.tag = "Err" ->
             [res |-> v, regime |-> "none", calls |-> <<"validate_inputs">>, cdf |-> <<>>]
        [] FLt(t, EPS_TIME) ->
             [res |-> Ok(max(FSub(s0, k), F(0, 0))), regime |-> "expiry",
              calls |-> <<"validate_inputs">>, cdf |-> <<>>]
        [] dd.res.tag = "Err" ->
             [res |-> dd.res, regime |-> "none",
              calls |-> <<"validate_inputs", "d1_d2">> \o dd.calls, cdf |-> <<>>]
        [] df # df -> v [] n1 # n1 -> v [] n2 # n2 -> v
        [] OTHER ->
             [res |-> Ok(FSub(FMul(s0, n1), FMul(FMul(k, df), n2))),
              regime |-> dd.regime,
              calls |-> <<"validate_inputs", "d1_d2">> \o dd.calls
                          \o <<"exp", "normal_cdf", "normal_cdf">>,
              cdf |-> <<<<d1, n1>>, <<d2, n2>>>>]

\* call_price without the discount factor
call_price_M(s0, k, t, r, sigma) ==
  LET cc == call_price_impl(s0, k, t, r, sigma)
  IN  IF cc.cdf # <<>>
      THEN [cc EXCEPT !.res = Ok(FSub(FMul(s0, cc.cdf[1][2]), FMul(k, cc.cdf[2][2])))]
      ELSE cc

call_price(s0, k, t, r, sigma) == Apply("call_price", <<s0, k, t, r, sigma>>)

put_price_impl(s0, k, t, r, sigma) ==
  LET v  == validate_inputs(s0, k, t, r, sigma)
      dd == d1_d2(s0, k, t, r, sigma)
      d1 == dd.res.val[1]
      d2 == dd.res.val[2]
      df == exp(FMul(FNeg(r), t))
      n2 == normal_cdf(FNeg(d2))
      n1 == normal_cdf(FNeg(d1))
  IN  CASE v.tag = "Err" ->
             [res |-> v, regime |-> "none", calls |-> <<"validate_inputs">>, cdf |-> <<>>]
        [] FLt(t, EPS_TIME) ->
             [res |-> Ok(max(FSub(k, s0), F(0, 0))), regime |-> "expiry",
              calls |-> <<"validate_inputs">>, cdf |-> <<>>]
        [] dd.res.tag = "Err" ->
             [res |-> dd.res, regime |-> "none",
              calls |-> <<"validate_inputs", "d1_d2">> \o dd.calls, cdf |-> <<>>]
        [] df # df -> v [] n2 # n2 -> v [] n1 # n1 -> v
        [] OTHER ->
             [res |-> Ok(FSub(FMul(FMul(k, df), n2), FMul(s0, n1))),
              regime |-> dd.regime,
              calls |-> <<"validate_inputs", "d1_d2">> \o dd.calls
                          \o <<"exp", "normal_cdf", "normal_cdf">>,
              cdf |-> <<<<FNeg(d2), n2>>, <<FNeg(d1), n1>>>>]

\* put_price with the expiry shortcut taken before the validation
put_price_M(s0, k, t, r, sigma) ==
  LET v  == validate_inputs(s0, k, t, r, sigma)
      dd == d1_d2(s0, k, t, r, sigma)
      d1 == dd.res.val[1]
      d2 == dd.res.val[2]
      df == exp(FMul(FNeg(r), t))
      n2 == normal_cdf(FNeg(d2))
      n1 == normal_cdf(FNeg(d1))
  IN  CASE FLt(t, EPS_TIME) ->
             [res |-> Ok(max(FSub(k, s0), F(0, 0))), regime |-> "expiry",
              calls |-> <<>>, cdf |-> <<>>]
        [] v.tag = "Err" ->
             [res |-> v, regime |-> "none", calls |-> <<"validate_inputs">>, cdf |-> <<>>]
        [] dd.res.tag = "Err" ->
             [res |-> dd.res, regime |-> "none",
              calls |-> <<"validate_inputs", "d1_d2">> \o dd.calls, cdf |-> <<>>]
        [] df # df -> v [] n2 # n2 -> v [] n1 # n1 -> v
        [] OTHER ->
             [res |-> Ok(FSub(FMul(FMul(k, df), n2), FMul(s0, n1))),
              regime |-> dd.regime,
              calls |-> <<"validate_inputs", "d1_d2">> \o dd.calls
                          \o <<"exp", "normal_cdf", "normal_cdf">>,
              cdf |-> <<<<FNeg(d2), n2>>, <<FNeg(d1), n1>>>>]

\* put_price without the expiry shortcut: the price always comes from d1_d2
put_price_M20(s0, k, t, r, sigma) ==
  LET v  == validate_inputs(s0, k, t, r, sigma)
      dd == d1_d2(s0, k, t, r, sigma)
      d1 == dd.res.val[1]
      d2 == dd.res.val[2]
      df == exp(FMul(FNeg(r), t))
      n2 == normal_cdf(FNeg(d2))
      n1 == normal_cdf(FNeg(d1))
  IN  CASE v.tag = "Err" ->
             [res |-> v, regime |-> "none", calls |-> <<"validate_inputs">>, cdf |-> <<>>]
        [] df # df -> v [] n2 # n2 -> v [] n1 # n1 -> v
        [] OTHER ->
             [res |-> Ok(FSub(FMul(FMul(k, df), n2), FMul(s0, n1))),
              regime |-> dd.regime,
              calls |-> <<"validate_inputs", "d1_d2">> \o dd.calls
                          \o <<"exp", "normal_cdf", "normal_cdf">>,
              cdf |-> <<<<FNeg(d2), n2>>, <<FNeg(d1), n1>>>>]

put_price(s0, k, t, r, sigma) == Apply("put_price", <<s0, k, t, r, sigma>>)

option_price_impl(s0, k, t, r, sigma, kind) ==
  CASE kind = "Call" -> call_price(s0, k, t, r, sigma)
    [] kind = "Put"  -> put_price(s0, k, t, r, sigma)

\* option_price with the two arms of the match exchanged
option_price_M(s0, k, t, r, sigma, kind) ==
  CASE kind = "Call" -> put_price(s0, k, t, r, sigma)
    [] kind = "Put"  -> call_price(s0, k, t, r, sigma)

\* option_price that validates the arguments itself before it dispatches
option_price_M15(s0, k, t, r, sigma, kind) ==
  LET oo == option_price_impl(s0, k, t, r, sigma, kind)
  IN  [oo EXCEPT !.calls = <<"validate_inputs">> \o oo.calls]

option_price(s0, k, t, r, sigma, kind) == Apply("option_price", <<s0, k, t, r, sigma, kind>>)

(***************************************************************************)
(* The time-value functions of time_value/basic.rs, time_value/compound.rs  *)
(* and time_value/bonds.rs.                                                *)
(*                                                                          *)
(* A u32 (Periods, CompoundingFrequency) is kept as its two 16-bit halves,  *)
(* hi * 2^16 + lo, so that the conversions to i32 and to f64 are computed   *)
(* on the full width.                                                       *)
(***************************************************************************)
U32(hi, lo) == [hi |-> hi, lo |-> lo]

\* n as i32: the same 32 bits read as a signed number
AsI32(n) == IF n.hi >= 32768 THEN (n.hi - 65536) * 65536 + n.lo ELSE n.hi * 65536 + n.lo

\* the number n, for n below 2^31
U32Value(n) == n.hi * 65536 + n.lo

\* n as f64: exact, a u32 has at most 10 digits
AsF64(n) ==
  Round(FALSE, BAdd(BMul(BNat(n.hi), BNat(65536)), BNat(n.lo)), 0, FALSE)

\* the loop of f64::powi (__powidf2): square and multiply over the bits of b,
\* b halved towards zero
RECURSIVE PowiLoop(_, _, _)
PowiLoop(a, b, r) ==
  LET Next2(r2, b2) ==
        CASE r2 # r2 -> r2
          [] b2 = 0 -> r2
          [] OTHER -> PowiLoop(FMul(a, a), b2, r2)
  IN  CASE a # a -> a
        [] OTHER -> Next2(IF b % 2 = 1 THEN FMul(r, a) ELSE r,
                          IF b < 0 /\ b % 2 = 1 THEN (b \div 2) + 1 ELSE b \div 2)

powi_impl(x, n) ==
  IF n < 0 THEN FDiv(F(1, 0), PowiLoop(x, n, F(1, 0))) ELSE PowiLoop(x, n, F(1, 0))

powi(x, n) == Apply("powi", <<x, n>>)

\* f64::powf for a base x that is NaN or at least 0 (the callers pass
\* 1 + rate with rate >= 0 or NaN): the special cases of pow, and
\* exp(y * ln(x)) otherwise.
powf_impl(x, y) ==
  CASE IsZero(y) -> F(1, 0)
    [] x = F(1, 0) -> F(1, 0)
    [] is_nan(x) \/ is_nan(y) -> NaN
    [] is_infinite(y) ->
         IF FGt(x, F(1, 0)) THEN (IF y.neg THEN F(0, 0) ELSE INFINITY)
         ELSE (IF y.neg THEN INFINITY ELSE F(0, 0))
    [] IsZero(x) -> IF y.neg THEN INFINITY ELSE F(0, 0)
    [] is_infinite(x) -> IF y.neg THEN F(0, 0) ELSE INFINITY
    [] OTHER -> exp(FMul(y, ln(x)))

powf(x, y) == Apply("powf", <<x, y>>)

future_value_impl(pvalue, rate, periods) ==
  IF FLt(pvalue, F(0, 0)) THEN Err("InvalidMonetaryValue")
  ELSE IF FLe(rate, F(-1, 0)) THEN Err("InvalidInterestRate")
  ELSE Ok(FMul(pvalue, powi(FAdd(F(1, 0), rate), AsI32(periods))))

future_value(pvalue, rate, periods) == Apply("future_value", <<pvalue, rate, periods>>)

present_value_impl(fvalue, rate, periods) ==
  LET compound_factor == powi(FAdd(F(1, 0), rate), AsI32(periods))
  IN  IF FLt(fvalue, F(0, 0)) THEN Err("InvalidMonetaryValue")
      ELSE IF FLe(rate, F(-1, 0)) THEN Err("InvalidInterestRate")
      ELSE IF FEq(compound_factor, F(0, 0)) THEN Err("DivisionByZero")
      ELSE Ok(FDiv(fvalue, compound_factor))

present_value(fvalue, rate, periods) == Apply("present_value", <<fvalue, rate, periods>>)

\* validate_compound_params without the test of time_years
validate_compound_params_M(annual_rate, compounding_frequency, time_years) ==
  IF FLt(annual_rate, F(0, 0)) THEN Err("InvalidInterestRate")
  ELSE IF compounding_frequency = U32(0, 0) THEN Err("InvalidPeriods")
  ELSE Ok(<<>>)

validate_compound_params(annual_rate, compounding_frequency, time_years) ==
  IF FLt(annual_rate, F(0, 0)) THEN Err("InvalidInterestRate")
  ELSE IF compounding_frequency = U32(0, 0) THEN Err("InvalidPeriods")
  ELSE IF FLt(time_years, F(0, 0)) THEN Err("InvalidPeriods")
  ELSE Ok(<<>>)

validate_compound_inputs(principal, annual_rate, compounding_frequency, time_years) ==
  IF FLt(principal, F(0, 0)) THEN Err("InvalidMonetaryValue")
  ELSE validate_compound_params(annual_rate, compounding_frequency, time_years)

compound_amount_impl(principal, annual_rate, compounding_frequency, time_years) ==
  LET v == validate_compound_inputs(principal, annual_rate, compounding_frequency,
                                    time_years)
      rate_per_period == FDiv(annual_rate, AsF64(compounding_frequency))
      total_periods == FMul(AsF64(compounding_frequency), time_years)
  IN  IF v.tag = "Err" THEN v
      ELSE Ok(FMul(principal, powf(FAdd(F(1, 0), rate_per_period), total_periods)))

compound_amount(principal, annual_rate, compounding_frequency, time_years) ==
  Apply("compound_amount", <<principal, annual_rate, compounding_frequency, time_years>>)

compound_interest_impl(principal, annual_rate, compounding_frequency, time_years) ==
  LET amt == compound_amount(principal, annual_rate, compounding_frequency, time_years)
  IN  IF amt.tag = "Err" THEN amt
      ELSE Ok(FSub(amt.val, principal))

compound_interest(principal, annual_rate, compounding_frequency, time_years) ==
  Apply("compound_interest", <<principal, annual_rate, compounding_frequency, time_years>>)

\* new_coupon_bond that pays the principal with the first coupon
new_coupon_bond_M(face_value, coupon_rate, periods, ytm) ==
  LET coupon_payment == FMul(face_value, coupon_rate)
      n == U32Value(periods)
  IN  IF FLe(face_value, F(0, 0)) THEN Err("InvalidMonetaryValue")
      ELSE IF FLt(coupon_rate, F(0, 0)) \/ FLe(ytm, F(-1, 0))
      THEN Err("InvalidInterestRate")
      ELSE Ok([cash_flows |->
                 [t \in 1..n |->
                    [period |-> F(t, 0),
                     amount |-> IF t = 1 THEN FAdd(coupon_payment, face_value)
                                ELSE coupon_payment]],
               ytm |-> ytm])

\* Bond::new_coupon_bond, for periods below 2^31 (the vector of a longer bond
\* does not fit in memory)
new_coupon_bond_impl(face_value, coupon_rate, periods, ytm) ==
  LET coupon_payment == FMul(face_value, coupon_rate)
      n == U32Value(periods)
  IN  IF FLe(face_value, F(0, 0)) THEN Err("InvalidMonetaryValue")
      ELSE IF FLt(coupon_rate, F(0, 0)) \/ FLe(ytm, F(-1, 0))
      THEN Err("InvalidInterestRate")
      ELSE Ok([cash_flows |->
                 [t \in 1..n |->
                    [period |-> F(t, 0),
                     amount |-> IF t = n THEN FAdd(coupon_payment, face_value)
                                ELSE coupon_payment]],
               ytm |-> ytm])

new_coupon_bond(face_value, coupon_rate, periods, ytm) ==
  Apply("new_coupon_bond", <<face_value, coupon_rate, periods, ytm>>)

\* one term of the sums over the cash flows of a bond: the discounted amount
\* (bond_price), the discounted amount times the period (macaulay_duration),
\* the amount times the discount factor times period^2 + period
\* (bond_convexity)
CashFlowTerm(b, cash_flow, sum) ==
  LET discount_factor == powf(FAdd(F(1, 0), b.ytm), FNeg(cash_flow.period))
  IN  CASE sum = "price" -> FMul(cash_flow.amount, discount_factor)
        [] sum = "weighted_time_pv" ->
             FMul(FMul(cash_flow.amount, discount_factor), cash_flow.period)
        [] sum = "convexity_sum" ->
             FMul(FMul(cash_flow.amount, discount_factor),
                  FAdd(FMul(cash_flow.period, cash_flow.period), cash_flow.period))

\* for cash_flow in &bond.cash_flows { acc += term }, from the i-th flow on
RECURSIVE SumCashFlows(_, _, _, _)
SumCashFlows(b, sum, i, acc) ==
  CASE acc # acc -> acc
    [] i > Len(b.cash_flows) -> acc
    [] OTHER -> SumCashFlows(b, sum, i + 1,
                             FAdd(acc, CashFlowTerm(b, b.cash_flows[i], sum)))

bond_price_impl(b) ==
  IF FLe(b.ytm, F(-1, 0)) THEN Err("InvalidInterestRate")
  ELSE Ok(SumCashFlows(b, "price", 1, F(0, 0)))

bond_price(b) == Apply("bond_price", <<b>>)

\* macaulay_duration without the test of a zero price
macaulay_duration_M(b) ==
  LET market_price == bond_price(b)
  IN  IF market_price.tag = "Err" THEN market_price
      ELSE Ok(FDiv(SumCashFlows(b, "weighted_time_pv", 1, F(0, 0)), market_price.val))

macaulay_duration_impl(b) ==
  LET market_price == bond_price(b)
  IN  IF market_price.tag = "Err" THEN market_price
      ELSE IF FEq(market_price.val, F(0, 0)) THEN Err("DivisionByZero")
      ELSE Ok(FDiv(SumCashFlows(b, "weighted_time_pv", 1, F(0, 0)), market_price.val))

macaulay_duration(b) == Apply("macaulay_duration", <<b>>)

bond_convexity_impl(b) ==
  LET market_price == bond_price(b)
      yield_factor == FAdd(F(1, 0), b.ytm)
  IN  IF market_price.tag = "Err" THEN market_price
      ELSE IF FEq(market_price.val, F(0, 0)) THEN Err("DivisionByZero")
      ELSE Ok(FDiv(SumCashFlows(b, "convexity_sum", 1, F(0, 0)),
                   FMul(FMul(market_price.val, yield_factor), yield_factor)))

bond_convexity(b) == Apply("bond_convexity", <<b>>)

modified_duration_impl(b) ==
  LET mac_duration == macaulay_duration(b)
  IN  IF mac_duration.tag = "Err" THEN mac_duration
      ELSE Ok(FDiv(mac_duration.val, FAdd(F(1, 0), b.ytm)))

modified_duration(b) == Apply("modified_duration", <<b>>)

\* simple_interest_principal with the divisor 1 - r * t
simple_interest_principal_M(target_amount, interest_rate, time_years) ==
  LET denominator == FSub(F(1, 0), FMul(interest_rate, time_years))
  IN  IF FLt(target_amount, F(0, 0)) THEN Err("InvalidMonetaryValue")
      ELSE IF FLt(interest_rate, F(0, 0)) THEN Err("InvalidInterestRate")
      ELSE IF FLt(time_years, F(0, 0)) THEN Err("InvalidPeriods")
      ELSE IF FEq(denominator, F(0, 0)) THEN Err("DivisionByZero")
      ELSE Ok(FDiv(target_amount, denominator))

simple_interest_principal_impl(target_amount, interest_rate, time_years) ==
  LET denominator == FAdd(F(1, 0), FMul(interest_rate, time_years))
  IN  IF FLt(target_amount, F(0, 0)) THEN Err("InvalidMonetaryValue")
      ELSE IF FLt(interest_rate, F(0, 0)) THEN Err("InvalidInterestRate")
      ELSE IF FLt(time_years, F(0, 0)) THEN Err("InvalidPeriods")
      ELSE IF FEq(denominator, F(0, 0)) THEN Err("DivisionByZero")
      ELSE Ok(FDiv(target_amount, denominator))

simple_interest_principal(target_amount, interest_rate, time_years) ==
  Apply("simple_interest_principal", <<target_amount, interest_rate, time_years>>)

(***************************************************************************)
(* The caller.  It holds one argument tuple and invokes the entry points on *)
(* it one after another; every result is kept, so that the results of       *)
(* different entry points on the same arguments can be compared.            *)
(***************************************************************************)
NSpot == 6

NStrike == 4

NTime == 7

NRate == 4

NVol == 6

SpotValues == <<F(100, 0), F(110, 0), F(90, 0), F(0, 0), F(-1, 0), NaN, INFINITY>>

StrikeValues == <<F(100, 0), F(0, 0), F(-1, 0), INFINITY, NaN>>

TimeValues == <<F(1, 0), F(1, -12), F(5, -13), F(0, 0), F(-5, -1), NaN, NEG_INFINITY,
                INFINITY>>

RateValues == <<F(125, -3), F(0, 0), F(-1000, 0), NEG_INFINITY, NaN>>

VolValues == <<F(5, -1), F(0, 0), F(5, -13), F(1, -12), F(-1, -1), NaN, INFINITY>>

Spots == {SpotValues[i] : i \in 1..NSpot}

Strikes == {StrikeValues[i] : i \in 1..NStrike}

Times == {TimeValues[i] : i \in 1..NTime}

Rates == {RateValues[i] : i \in 1..NRate}

Vols == {VolValues[i] : i \in 1..NVol}

Inputs_impl == [s0 : Spots, k : Strikes, t : Times, r : Rates, sigma : Vols]

Inputs == Apply("Inputs", <<>>)

NValue == 5

NRateTV == 5

NYtm == 2

NBondPeriods == 3

NPeriods == 6

NFrequency == 3

NYears == 4

NSimpleRate == 5

MonetaryValues == <<F(1000, 0), F(0, 0), F(-100, 0), NaN, INFINITY, F(1, 300)>>

InterestRates == <<F(7, -2), F(0, 0), F(-5, -1), F(-1, 0), NaN, F(-5, -2)>>

YtmValues == <<F(4, -2), F(-1, 0), NaN>>

BondPeriodValues == <<U32(0, 5), U32(0, 0), U32(0, 1), U32(0, 2)>>

PeriodValues == <<U32(0, 5), U32(0, 0), U32(0, 1), U32(0, 2000), U32(65535, 65535),
                  U32(32768, 0), U32(0, 10)>>

FrequencyValues == <<U32(0, 4), U32(0, 0), U32(0, 1), U32(0, 12)>>

YearValues == <<F(2, 0), F(0, 0), F(-1, 0), NaN, F(5, -1)>>

BondInputs ==
  [face_value : {MonetaryValues[i] : i \in 1..NValue},
   coupon_rate : {InterestRates[i] : i \in 1..NRateTV},
   periods : {BondPeriodValues[i] : i \in 1..NBondPeriods},
   ytm : {YtmValues[i] : i \in 1..NYtm}]

BasicInputs ==
  [present_value : {MonetaryValues[i] : i \in 1..NValue},
   interest_rate : {InterestRates[i] : i \in 1..NRateTV},
   periods : {PeriodValues[i] : i \in 1..NPeriods}]

CompoundInputs ==
  [principal : {MonetaryValues[i] : i \in 1..NValue},
   annual_rate : {InterestRates[i] : i \in 1..NRateTV},
   compounding_frequency : {FrequencyValues[i] : i \in 1..NFrequency},
   time_years : {YearValues[i] : i \in 1..NYears}]

SimpleRateValues == <<F(5, -1), F(0, 0), INFINITY, F(-5, -2), NaN, F(7, -2)>>

SimpleInputs ==
  [target_amount : {MonetaryValues[i] : i \in 1..NValue},
   interest_rate : {SimpleRateValues[i] : i \in 1..NSimpleRate},
   time_years : {YearValues[i] : i \in 1..NYears}]

TimeValueInputs_impl ==
  [new_coupon_bond |-> BondInputs, future_value |-> BasicInputs,
   compound_amount |-> CompoundInputs, simple_interest_principal |-> SimpleInputs]

TimeValueInputs == Apply("TimeValueInputs", <<>>)


\* The operation named op applied to the arguments a.
Apply(op, a) ==
  CASE a # a -> a
    [] op = "BCmp" -> BCmp_impl(a[1], a[2])
    [] op = "BAdd" -> BAdd_impl(a[1], a[2])
    [] op = "BSub" -> BSub_impl(a[1], a[2])
    [] op = "BNorm" -> BNorm_impl(a[1])
    [] op = "BMulSmall" -> BMulSmall_impl(a[1], a[2])
    [] op = "BMul" -> BMul_impl(a[1], a[2])
    [] op = "BDivSmall" -> BDivSmall_impl(a[1], a[2])
    [] op = "BDiv" -> BDiv_impl(a[1], a[2])
    [] op = "BShl10" -> BShl10_impl(a[1], a[2])
    [] op = "BShr10" -> BShr10_impl(a[1], a[2])
    [] op = "Round" -> Round_impl(a[1], a[2], a[3], a[4])
    [] op = "FCmp" -> FCmp_impl(a[1], a[2])
    [] op = "FAdd" -> FAdd_impl(a[1], a[2])
    [] op = "FMul" -> FMul_impl(a[1], a[2])
    [] op = "FDiv" -> FDiv_impl(a[1], a[2])
    [] op = "ISqrt" -> ISqrt_impl(a[1])
    [] op = "sqrt" -> sqrt_impl(a[1])
    [] op = "FixMul" -> FixMul_impl(a[1], a[2])
    [] op = "ExpFix" -> ExpFix_impl(a[1])
    [] op = "ExpScale" -> ExpScale_impl(a[1])
    [] op = "exp" -> exp_impl(a[1])
    [] op = "LnFix" -> LnFix_impl(a[1])
    [] op = "SAdd" -> SAdd_impl(a[1], a[2])
    [] op = "ln" -> ln_impl(a[1])
    [] op = "F" -> F_impl(a[1], a[2])
    [] op = "normal_pdf" -> normal_pdf_impl(a[1])
    [] op = "normal_cdf" -> normal_cdf_impl(a[1])
    [] op = "validate_inputs" -> validate_inputs_impl(a[1], a[2], a[3], a[4], a[5])
    [] op = "d1_d2" -> d1_d2_impl(a[1], a[2], a[3], a[4], a[5])
    [] op = "call_price" -> call_price_impl(a[1], a[2], a[3], a[4], a[5])
    [] op = "put_price" -> put_price_impl(a[1], a[2], a[3], a[4], a[5])
    [] op = "option_price" -> option_price_impl(a[1], a[2], a[3], a[4], a[5], a[6])
    [] op = "Inputs" -> Inputs_impl
    [] op = "powi" -> powi_impl(a[1], a[2])
    [] op = "powf" -> powf_impl(a[1], a[2])
    [] op = "future_value" -> future_value_impl(a[1], a[2], a[3])
    [] op = "present_value" -> present_value_impl(a[1], a[2], a[3])
    [] op = "compound_amount" -> compound_amount_impl(a[1], a[2], a[3], a[4])
    [] op = "compound_interest" -> compound_interest_impl(a[1], a[2], a[3], a[4])
    [] op = "new_coupon_bond" -> new_coupon_bond_impl(a[1], a[2], a[3], a[4])
    [] op = "TimeValueInputs" -> TimeValueInputs_impl
    [] op = "bond_price" -> bond_price_impl(a[1])
    [] op = "macaulay_duration" -> macaulay_duration_impl(a[1])
    [] op = "bond_convexity" -> bond_convexity_impl(a[1])
    [] op = "modified_duration" -> modified_duration_impl(a[1])
    [] op = "simple_interest_principal" -> simple_interest_principal_impl(a[1], a[2], a[3])

\* a result slot before the entry point has been invoked
Pending == [res |-> [tag |-> "Pending"], regime |-> "none", calls |-> <<>>, cdf |-> <<>>]

\* a slot of the time-value functions before the function has been invoked,
\* and the arguments of a caller that invokes none of them
NotCalled == [tag |-> "Pending"]

VARIABLES args, pc, validated, d1d2, call, put, option,
          tvargs, bond, price, macaulay, modified, convexity,
          fv, calculated_pv, amount, interest, simple_principal

pricer == <<args, validated, d1d2, call, put, option>>

bond_measures == <<price, macaulay, modified, convexity>>

time_value == <<tvargs, bond, bond_measures, fv, calculated_pv, amount, interest,
                simple_principal>>

vars == <<pc, pricer, time_value>>

Init ==
  /\ args \in Inputs
  /\ pc = "validate_inputs"
  /\ validated = Pending
  /\ d1d2 = Pending
  /\ call = Pending
  /\ put = Pending
  /\ option = [kind \in OptionType |-> Pending]
  /\ tvargs = NotCalled
  /\ bond = NotCalled
  /\ fv = NotCalled
  /\ calculated_pv = NotCalled
  /\ amount = NotCalled
  /\ interest = NotCalled
  /\ price = NotCalled
  /\ macaulay = NotCalled
  /\ modified = NotCalled
  /\ convexity = NotCalled
  /\ simple_principal = NotCalled

ValidateInputs ==
  /\ pc = "validate_inputs"
  /\ validated' = [res |-> validate_inputs(args.s0, args.k, args.t, args.r, args.sigma),
                   regime |-> "none", calls |-> <<>>, cdf |-> <<>>]
  /\ pc' = "d1_d2"
  /\ UNCHANGED <<args, d1d2, call, put, option>>
  /\ UNCHANGED time_value

D1D2 ==
  /\ pc = "d1_d2"
  /\ d1d2' = d1_d2(args.s0, args.k, args.t, args.r, args.sigma)
  /\ pc' = "call_price"
  /\ UNCHANGED <<args, validated, call, put, option>>
  /\ UNCHANGED time_value

CallPrice ==
  /\ pc = "call_price"
  /\ call' = call_price(args.s0, args.k, args.t, args.r, args.sigma)
  /\ pc' = "put_price"
  /\ UNCHANGED <<args, validated, d1d2, put, option>>
  /\ UNCHANGED time_value

PutPrice ==
  /\ pc = "put_price"
  /\ put' = put_price(args.s0, args.k, args.t, args.r, args.sigma)
  /\ pc' = "option_price"
  /\ UNCHANGED <<args, validated, d1d2, call, option>>
  /\ UNCHANGED time_value

OptionPrice(kind) ==
  /\ pc = "option_price"
  /\ option[kind] = Pending
  /\ kind = "Put" => option["Call"] # Pending
  /\ option' = [option EXCEPT ![kind] =
                  option_price(args.s0, args.k, args.t, args.r, args.sigma, kind)]
  /\ pc' = IF kind = "Put" THEN "done" ELSE "option_price"
  /\ UNCHANGED <<args, validated, d1d2, call, put>>
  /\ UNCHANGED time_value

Next ==
  \/ ValidateInputs
  \/ D1D2
  \/ CallPrice
  \/ PutPrice
  \/ \E kind \in OptionType : OptionPrice(kind)

Spec == Init /\ [][Next]_vars

(***************************************************************************)
(* The callers of the time-value functions: one builds a bond and, when it  *)
(* has one, computes its price, durations and convexity; one computes the   *)
(* principal that simple interest needs for a target amount; one computes  *)
(* a future value and, when it has one, discounts it back with the same     *)
(* rate and periods (tests::test_reciprocal_relationship); one computes a   *)
(* compound amount and then the compound interest on the same arguments.    *)
(***************************************************************************)
TimeValueInit ==
  /\ pc \in {"new_coupon_bond", "future_value", "compound_amount",
             "simple_interest_principal"}
  /\ tvargs \in TimeValueInputs[pc]
  /\ bond = NotCalled
  /\ price = NotCalled
  /\ macaulay = NotCalled
  /\ modified = NotCalled
  /\ convexity = NotCalled
  /\ fv = NotCalled
  /\ calculated_pv = NotCalled
  /\ amount = NotCalled
  /\ interest = NotCalled
  /\ simple_principal = NotCalled
  /\ args = NotCalled
  /\ validated = Pending
  /\ d1d2 = Pending
  /\ call = Pending
  /\ put = Pending
  /\ option = [kind \in OptionType |-> Pending]

NewCouponBond ==
  /\ pc = "new_coupon_bond"
  /\ bond' = new_coupon_bond(tvargs.face_value, tvargs.coupon_rate, tvargs.periods,
                             tvargs.ytm)
  /\ pc' = IF bond'.tag = "Ok" THEN "bond_price" ELSE "done"
  /\ UNCHANGED <<tvargs, bond_measures, fv, calculated_pv, amount, interest,
                 simple_principal>>
  /\ UNCHANGED pricer

BondPrice ==
  /\ pc = "bond_price"
  /\ price' = bond_price(bond.val)
  /\ pc' = "macaulay_duration"
  /\ UNCHANGED <<tvargs, bond, macaulay, modified, convexity, fv,
                 calculated_pv, amount, interest, simple_principal>>
  /\ UNCHANGED pricer

MacaulayDuration ==
  /\ pc = "macaulay_duration"
  /\ macaulay' = macaulay_duration(bond.val)
  /\ pc' = "modified_duration"
  /\ UNCHANGED <<tvargs, bond, price, modified, convexity, fv, calculated_pv,
                 amount, interest, simple_principal>>
  /\ UNCHANGED pricer

ModifiedDuration ==
  /\ pc = "modified_duration"
  /\ modified' = modified_duration(bond.val)
  /\ pc' = "bond_convexity"
  /\ UNCHANGED <<tvargs, bond, price, macaulay, convexity, fv, calculated_pv,
                 amount, interest, simple_principal>>
  /\ UNCHANGED pricer

BondConvexity ==
  /\ pc = "bond_convexity"
  /\ convexity' = bond_convexity(bond.val)
  /\ pc' = "done"
  /\ UNCHANGED <<tvargs, bond, price, macaulay, modified, fv, calculated_pv,
                 amount, interest, simple_principal>>
  /\ UNCHANGED pricer

FutureValue ==
  /\ pc = "future_value"
  /\ fv' = future_value(tvargs.present_value, tvargs.interest_rate, tvargs.periods)
  /\ pc' = IF fv'.tag = "Ok" THEN "present_value" ELSE "done"
  /\ UNCHANGED <<tvargs, bond, bond_measures, calculated_pv, amount, interest,
                 simple_principal>>
  /\ UNCHANGED pricer

PresentValue ==
  /\ pc = "present_value"
  /\ calculated_pv' = present_value(fv.val, tvargs.interest_rate, tvargs.periods)
  /\ pc' = "done"
  /\ UNCHANGED <<tvargs, bond, bond_measures, fv, amount, interest, simple_principal>>
  /\ UNCHANGED pricer

CompoundAmount ==
  /\ pc = "compound_amount"
  /\ amount' = compound_amount(tvargs.principal, tvargs.annual_rate,
                               tvargs.compounding_frequency, tvargs.time_years)
  /\ pc' = "compound_interest"
  /\ UNCHANGED <<tvargs, bond, bond_measures, fv, calculated_pv, interest,
                 simple_principal>>
  /\ UNCHANGED pricer

CompoundInterest ==
  /\ pc = "compound_interest"
  /\ interest' = compound_interest(tvargs.principal, tvargs.annual_rate,
                                   tvargs.compounding_frequency, tvargs.time_years)
  /\ pc' = "done"
  /\ UNCHANGED <<tvargs, bond, bond_measures, fv, calculated_pv, amount,
                 simple_principal>>
  /\ UNCHANGED pricer

SimpleInterestPrincipal ==
  /\ pc = "simple_interest_principal"
  /\ simple_principal' = simple_interest_principal(tvargs.target_amount,
                                                   tvargs.interest_rate,
                                                   tvargs.time_years)
  /\ pc' = "done"
  /\ UNCHANGED <<tvargs, bond, bond_measures, fv, calculated_pv, amount, interest>>
  /\ UNCHANGED pricer

TimeValueNext ==
  \/ NewCouponBond
  \/ BondPrice
  \/ MacaulayDuration
  \/ ModifiedDuration
  \/ BondConvexity
  \/ FutureValue
  \/ PresentValue
  \/ CompoundAmount
  \/ CompoundInterest
  \/ SimpleInterestPrincipal

TimeValueSpec == TimeValueInit /\ [][TimeValueNext]_vars

(***************************************************************************)
(* Properties.  They are stated over the results the caller holds, with    *)
(* the thresholds and formulas written out as the specification gives them. *)
(***************************************************************************)
Returned(slot) == slot.res.tag # "Pending"

Accepted == validated.res.tag = "Ok"

AtExpiry == FLt(args.t, F(1, -12))

ZeroVol == FGe(args.t, F(1, -12)) /\ FLt(args.sigma, F(1, -12))

Regular == FGe(args.t, F(1, -12)) /\ FGe(args.sigma, F(1, -12))

\* e^(-rT) and ln(S0/K) + rT of the current arguments
Discount == exp(FMul(FNeg(args.r), args.t))

Drift == FAdd(ln(FDiv(args.s0, args.k)), FMul(args.r, args.t))

Within(a, b, tol) == FLe(abs(FSub(a, b)), tol)

Pair(v) == Ok(<<v, v>>)

\* C1: for every accepted input with T > 0, call_price - put_price equals
\* S0 - K*e^(-rT) within 1e-9 absolute error, in every regime.
C1_PutCallParity ==
  (Accepted /\ Returned(call) /\ Returned(put) /\ FGt(args.t, F(0, 0))) =>
     Within(FSub(call.res.val, put.res.val),
            FSub(args.s0, FMul(args.k, Discount)), F(1, -9))

\* C2: validate_inputs fails with InvalidMonetaryValue if an argument is not
\* finite or S0 <= 0 or K <= 0; otherwise with InvalidPeriods if T < 0;
\* otherwise with InvalidInterestRate if sigma < 0; and returns Ok(()) for
\* every other input (all finite, S0 > 0, K > 0, T >= 0, sigma >= 0).
C2_ValidateInputs ==
  LET nonFinite == \E x \in {args.s0, args.k, args.t, args.r, args.sigma} :
                      is_nan(x) \/ is_infinite(x)
      monetary  == nonFinite \/ FLe(args.s0, F(0, 0)) \/ FLe(args.k, F(0, 0))
      periods   == FLt(args.t, F(0, 0))
      rate      == FLt(args.sigma, F(0, 0))
  IN  Returned(validated) =>
        /\ monetary => validated.res = Err("InvalidMonetaryValue")
        /\ (~monetary /\ periods) => validated.res = Err("InvalidPeriods")
        /\ (~monetary /\ ~periods /\ rate) => validated.res = Err("InvalidInterestRate")
        /\ (/\ ~nonFinite
            /\ FGt(args.s0, F(0, 0)) /\ FGt(args.k, F(0, 0))
            /\ FGe(args.t, F(0, 0)) /\ FGe(args.sigma, F(0, 0)))
             => validated.res = Ok(<<>>)

C2_Witness ==
  /\ validated.res = Err("InvalidInterestRate")
  /\ FLt(args.sigma, F(0, 0))

\* C3: each of d1_d2, call_price, put_price and option_price (either kind)
\* returns Err(e) exactly when validate_inputs returns Err(e) on the same
\* arguments, and Ok(..) for every input validate_inputs accepts.
C3_SingleGate ==
  LET Gated(slot) ==
        Returned(slot) =>
           /\ validated.res.tag = "Err" =>
                (slot.res.tag = "Err" /\ slot.res.err = validated.res.err)
           /\ validated.res.tag = "Ok" => slot.res.tag = "Ok"
  IN  /\ Gated(d1d2) /\ Gated(call) /\ Gated(put)
      /\ Gated(option["Call"]) /\ Gated(option["Put"])

C3_Witness ==
  /\ pc = "done"
  /\ validated.res = Err("InvalidPeriods")
  /\ put.res = Err("InvalidPeriods")
  /\ AtExpiry

\* C4: option_price with kind Call returns exactly the result of call_price,
\* and with kind Put exactly the result of put_price, on the same arguments,
\* with no additional logic (the same execution).
C4_Dispatch ==
  /\ Returned(option["Call"]) => option["Call"] = call
  /\ Returned(option["Put"]) => option["Put"] = put

C4_Witness ==
  /\ pc = "done"
  /\ option["Call"].res.tag = "Ok"
  /\ option["Put"].res.tag = "Ok"
  /\ Regular
  /\ ~FEq(option["Call"].res.val, option["Put"].res.val)

\* C5: for every accepted input with T < 1e-12, call_price returns
\* max(S0 - K, 0) and put_price returns max(K - S0, 0), whatever r and sigma.
C5_ExpiryIntrinsic ==
  (Accepted /\ AtExpiry) =>
     /\ Returned(call) =>
          /\ call.res.tag = "Ok"
          /\ FEq(call.res.val,
                 IF FGt(args.s0, args.k) THEN FSub(args.s0, args.k) ELSE F(0, 0))
     /\ Returned(put) =>
          /\ put.res.tag = "Ok"
          /\ FEq(put.res.val,
                 IF FGt(args.k, args.s0) THEN FSub(args.k, args.s0) ELSE F(0, 0))

C5_Witness ==
  /\ Accepted /\ AtExpiry /\ Returned(put)
  /\ FLt(args.sigma, F(1, -12))
  /\ FLt(args.s0, args.k)
  /\ FEq(call.res.val, F(0, 0))
  /\ FEq(put.res.val, F(10, 0))

\* C6: for every accepted input with T < 1e-12 and S0 == K, d1_d2 returns
\* Ok((0, 0)).
C6_ExpiryAtTheMoney ==
  (Accepted /\ Returned(d1d2) /\ AtExpiry /\ FEq(args.s0, args.k)) =>
     /\ d1d2.res.tag = "Ok"
     /\ IsZero(d1d2.res.val[1])
     /\ IsZero(d1d2.res.val[2])

\* C7: for every accepted input with T < 1e-12, d1_d2 returns Ok((v, v)) with
\* v = +infinity when S0 > K and v = -infinity when S0 < K.
C7_ExpiryOffTheMoney ==
  (Accepted /\ Returned(d1d2) /\ AtExpiry) =>
     /\ FGt(args.s0, args.k) => d1d2.res = Pair(INFINITY)
     /\ FLt(args.s0, args.k) => d1d2.res = Pair(NEG_INFINITY)

C7_Witness ==
  /\ Accepted /\ AtExpiry
  /\ FLt(args.s0, args.k)
  /\ d1d2.res = Pair(NEG_INFINITY)

\* C8: for every accepted input with T >= 1e-12 and sigma < 1e-12, d1_d2
\* returns Ok((v, v)) with v = +infinity if ln(S0/K) + r*T > 0, -infinity if
\* it is < 0, and 0 if it is exactly 0.
C8_ZeroVolD1D2 ==
  (Accepted /\ Returned(d1d2) /\ ZeroVol) =>
     /\ FGt(Drift, F(0, 0)) => d1d2.res = Pair(INFINITY)
     /\ FLt(Drift, F(0, 0)) => d1d2.res = Pair(NEG_INFINITY)
     /\ FEq(Drift, F(0, 0)) =>
          /\ d1d2.res.tag = "Ok"
          /\ IsZero(d1d2.res.val[1])
          /\ IsZero(d1d2.res.val[2])

C8_Witness ==
  /\ Accepted /\ ZeroVol
  /\ FLt(args.s0, args.k)
  /\ FGt(args.r, F(0, 0))
  /\ d1d2.res = Pair(INFINITY)

\* C9: for every accepted input exactly one regime produces the result:
\* expiry iff T < 1e-12, zero-volatility iff T >= 1e-12 and sigma < 1e-12,
\* regular iff T >= 1e-12 and sigma >= 1e-12; and d1_d2, call_price and
\* put_price select the same regime for the same input.
C9_Regimes ==
  LET OneRegime(slot) ==
        Returned(slot) =>
           /\ slot.regime \in {"expiry", "zero_vol", "regular"}
           /\ slot.regime = "expiry" <=> AtExpiry
           /\ slot.regime = "zero_vol" <=> ZeroVol
           /\ slot.regime = "regular" <=> Regular
           /\ slot.regime = d1d2.regime
  IN  Accepted => (OneRegime(d1d2) /\ OneRegime(call) /\ OneRegime(put))

C9_Witness ==
  /\ pc = "done" /\ Accepted
  /\ FEq(args.t, F(1, -12))
  /\ FEq(args.sigma, F(1, -12))
  /\ d1d2.regime = "regular" /\ call.regime = "regular" /\ put.regime = "regular"

\* C10: for every accepted input with T >= 1e-12 and sigma < 1e-12,
\* call_price returns S0 - K*e^(-rT) when ln(S0/K) + r*T > 0 and 0 when it is
\* < 0, and put_price returns K*e^(-rT) - S0 when ln(S0/K) + r*T < 0 and 0
\* when it is > 0.
C10_ZeroVolPrices ==
  (Accepted /\ ZeroVol) =>
     /\ (Returned(call) /\ FGt(Drift, F(0, 0))) =>
          FEq(call.res.val, FSub(args.s0, FMul(args.k, Discount)))
     /\ (Returned(call) /\ FLt(Drift, F(0, 0))) => FEq(call.res.val, F(0, 0))
     /\ (Returned(put) /\ FLt(Drift, F(0, 0))) =>
          FEq(put.res.val, FSub(FMul(args.k, Discount), args.s0))
     /\ (Returned(put) /\ FGt(Drift, F(0, 0))) => FEq(put.res.val, F(0, 0))

\* the number of times the function named f occurs in the trace calls
Count(calls, f) == Cardinality({i \in 1..Len(calls) : calls[i] = f})

\* d1_d2(100, 100, 1, 0.05, 0.20), the example of the regular case
RegularExample == d1_d2(F(100, 0), F(100, 0), F(1, 0), F(5, -2), F(2, -1))

\* C11: for every accepted input with T >= 1e-12 and sigma >= 1e-12, d1_d2
\* returns d1 = (ln(S0/K) + (r + sigma^2/2)*T) / (sigma*sqrt(T)) and
\* d2 = d1 - sigma*sqrt(T); d1_d2(100,100,1,0.05,0.20) gives d1 = 0.35 and
\* d2 = 0.15 within 1e-12.
C11_RegularD1D2 ==
  LET sst == FMul(args.sigma, sqrt(args.t))
      d1  == FDiv(FAdd(ln(FDiv(args.s0, args.k)),
                       FMul(FAdd(args.r, FDiv(FMul(args.sigma, args.sigma), F(2, 0))),
                            args.t)),
                  sst)
  IN  /\ (Accepted /\ Returned(d1d2) /\ Regular) => d1d2.res = Ok(<<d1, FSub(d1, sst)>>)
      /\ RegularExample.res.tag = "Ok"
      /\ Within(RegularExample.res.val[1], F(35, -2), F(1, -12))
      /\ Within(RegularExample.res.val[2], F(15, -2), F(1, -12))

C11_Witness ==
  /\ Accepted /\ Returned(d1d2) /\ Regular
  /\ FLt(args.s0, args.k)
  /\ FGt(d1d2.res.val[1], F(0, 0))
  /\ FLt(d1d2.res.val[2], F(0, 0))

\* C12: for every accepted input with T >= 1e-12, with (d1,d2) the pair that
\* d1_d2 returns for the same arguments and df = e^(-rT), call_price returns
\* S0*normal_cdf(d1) - K*df*normal_cdf(d2) and put_price returns
\* K*df*normal_cdf(-d2) - S0*normal_cdf(-d1).
C12_ClosedForm ==
  LET d1 == d1d2.res.val[1]
      d2 == d1d2.res.val[2]
  IN  (Accepted /\ Returned(d1d2) /\ ~AtExpiry) =>
        /\ Returned(call) =>
             /\ call.cdf = <<<<d1, normal_cdf(d1)>>, <<d2, normal_cdf(d2)>>>>
             /\ call.res = Ok(FSub(FMul(args.s0, normal_cdf(d1)),
                                   FMul(FMul(args.k, Discount), normal_cdf(d2))))
        /\ Returned(put) =>
             /\ put.cdf = <<<<FNeg(d2), normal_cdf(FNeg(d2))>>,
                            <<FNeg(d1), normal_cdf(FNeg(d1))>>>>
             /\ put.res = Ok(FSub(FMul(FMul(args.k, Discount), normal_cdf(FNeg(d2))),
                                  FMul(args.s0, normal_cdf(FNeg(d1)))))

C12_Witness ==
  /\ Accepted /\ Regular /\ Returned(put)
  /\ FGt(args.r, F(0, 0))
  /\ FGt(call.res.val, put.res.val)
  /\ FGt(put.res.val, F(0, 0))

\* C13: for every finite x, normal_cdf(x) + normal_cdf(-x) = 1 within 1e-9,
\* and for every x < 0 normal_cdf(x) = 1 - normal_cdf(-x).  It is stated of
\* the values x = d1, d2 that call_price passes to normal_cdf and -x that
\* put_price passes to it.
C13_CdfSymmetry ==
  (Returned(call) /\ Returned(put) /\ call.cdf # <<>> /\ put.cdf # <<>>) =>
     \A i \in 1..2 :
        LET x  == call.cdf[i][1]
            v  == call.cdf[i][2]
            vn == put.cdf[3 - i][2]
        IN  /\ put.cdf[3 - i][1] = FNeg(x)
            /\ is_finite(x) => Within(FAdd(v, vn), F(1, 0), F(1, -9))
            /\ FLt(x, F(0, 0)) => v = FSub(F(1, 0), vn)

\* C14 as stated: every result of normal_cdf, for the d1, d2, -d1, -d2 that
\* call_price and put_price pass to it, lies strictly between 0 and 1.
C14_CdfOpenRange ==
  LET Open(slot) ==
        Returned(slot) =>
           \A i \in 1..Len(slot.cdf) :
              FLt(F(0, 0), slot.cdf[i][2]) /\ FLt(slot.cdf[i][2], F(1, 0))
  IN  Open(call) /\ Open(put)

\* C14: every result of normal_cdf for an argument that is not NaN, among them
\* the d1, d2, -d1, -d2 that call_price and put_price pass to it, lies within
\* the closed interval from 0 to 1; normal_cdf(+infinity) = 1 and
\* normal_cdf(-infinity) = 0.
C14_CdfClosedRange ==
  LET Closed(slot) ==
        Returned(slot) =>
           \A i \in 1..Len(slot.cdf) :
              LET x == slot.cdf[i][1]
                  v == slot.cdf[i][2]
              IN  /\ ~is_nan(x) => (FLe(F(0, 0), v) /\ FLe(v, F(1, 0)))
                  /\ x = INFINITY => v = F(1, 0)
                  /\ x = NEG_INFINITY => IsZero(v)
  IN  Closed(call) /\ Closed(put)

C14_Witness ==
  /\ Returned(put) /\ ZeroVol
  /\ call.cdf # <<>> /\ put.cdf # <<>>
  /\ call.cdf[1] = <<INFINITY, F(1, 0)>>
  /\ put.cdf[1][1] = NEG_INFINITY /\ IsZero(put.cdf[1][2])

\* C15 as stated: in every call to d1_d2, call_price, put_price or
\* option_price, validate_inputs is executed exactly once, before everything
\* else, and a validation error is returned at once.
C15_ValidatedOnce ==
  LET Once(slot) ==
        Returned(slot) =>
           /\ Count(slot.calls, "validate_inputs") = 1
           /\ slot.calls[1] = "validate_inputs"
           /\ validated.res.tag = "Err" =>
                (slot.res = validated.res /\ slot.calls = <<"validate_inputs">>)
  IN  /\ Once(d1d2) /\ Once(call) /\ Once(put)
      /\ Once(option["Call"]) /\ Once(option["Put"])

\* C15: every call to d1_d2, call_price, put_price or option_price starts
\* with validate_inputs and returns a validation error at once.  d1_d2 executes
\* validate_inputs once; the three price functions execute it once when the
\* call ends at the validation error or at the expiry shortcut, and twice
\* otherwise, the second time inside d1_d2.
C15_ValidatedFirst ==
  LET First(slot, n) ==
        Returned(slot) =>
           /\ Count(slot.calls, "validate_inputs") = n
           /\ slot.calls[1] = "validate_inputs"
           /\ validated.res.tag = "Err" =>
                (slot.res = validated.res /\ slot.calls = <<"validate_inputs">>)
      twice == IF Accepted /\ ~AtExpiry THEN 2 ELSE 1
  IN  Returned(validated) =>
        /\ First(d1d2, 1) /\ First(call, twice) /\ First(put, twice)
        /\ First(option["Call"], twice) /\ First(option["Put"], twice)

C15_Witness ==
  /\ pc = "done" /\ Accepted /\ Regular
  /\ Count(d1d2.calls, "validate_inputs") = 1
  /\ Count(option["Put"].calls, "validate_inputs") = 2
  /\ option["Put"].calls[3] = "validate_inputs"

\* C16: d1_d2, call_price, put_price and option_price always return a typed
\* result, Ok or Err, and the only errors are InvalidMonetaryValue,
\* InvalidPeriods and InvalidInterestRate: never DivisionByZero nor
\* InvalidInput.
C16_ErrorKinds ==
  LET Typed(slot) ==
        Returned(slot) =>
           /\ slot.res.tag \in {"Ok", "Err"}
           /\ slot.res.tag = "Err" =>
                slot.res.err \in {"InvalidMonetaryValue", "InvalidPeriods",
                                  "InvalidInterestRate"}
  IN  /\ Typed(d1d2) /\ Typed(call) /\ Typed(put)
      /\ Typed(option["Call"]) /\ Typed(option["Put"])

C16_Witness ==
  /\ pc = "done"
  /\ is_infinite(args.r)
  /\ d1d2.res = [tag |-> "Err", err |-> "InvalidMonetaryValue"]
  /\ option["Put"].res = [tag |-> "Err", err |-> "InvalidMonetaryValue"]

\* C20: call_price and put_price called with T < 1e-12 return the intrinsic
\* value without invoking d1_d2 or normal_cdf, so the expiry branch of d1_d2
\* is never taken inside a call of call_price, put_price or option_price.
C20_ExpiryBypass ==
  LET Bypass(slot) ==
        (Accepted /\ Returned(slot)) =>
           /\ AtExpiry =>
                /\ slot.regime = "expiry"
                /\ Count(slot.calls, "d1_d2") = 0
                /\ Count(slot.calls, "normal_cdf") = 0
                /\ slot.cdf = <<>>
           /\ Count(slot.calls, "d1_d2") > 0 => slot.regime # "expiry"
  IN  /\ Bypass(call) /\ Bypass(put)
      /\ Bypass(option["Call"]) /\ Bypass(option["Put"])

C20_Witness ==
  /\ pc = "done" /\ Accepted /\ AtExpiry
  /\ d1d2.regime = "expiry"
  /\ put.regime = "expiry" /\ put.calls = <<"validate_inputs">>
  /\ FGt(put.res.val, F(0, 0))

\* C17: for face_value > 0, coupon_rate >= 0, ytm > -1 and periods = n >= 1,
\* Bond::new_coupon_bond returns a bond with exactly n cash flows in order, the
\* i-th having period i, every cash flow but the last having amount
\* face_value * coupon_rate, the last face_value * coupon_rate + face_value, and
\* the stored ytm equal to the argument.
C17_BondConstruction ==
  (/\ bond.tag # "Pending"
   /\ FGt(tvargs.face_value, F(0, 0))
   /\ FGe(tvargs.coupon_rate, F(0, 0))
   /\ FGt(tvargs.ytm, F(-1, 0))
   /\ U32Value(tvargs.periods) >= 1)
  => LET n == U32Value(tvargs.periods)
         coupon == FMul(tvargs.face_value, tvargs.coupon_rate)
     IN  /\ bond.tag = "Ok"
         /\ DOMAIN bond.val.cash_flows = 1..n
         /\ \A i \in 1..n :
              /\ bond.val.cash_flows[i].period = F(i, 0)
              /\ bond.val.cash_flows[i].amount =
                   IF i < n THEN coupon ELSE FAdd(coupon, tvargs.face_value)
         /\ bond.val.ytm = tvargs.ytm

\* a bond of 1000 at 7% over 5 periods: coupons of 70, and 1070 at the end
C17_Witness ==
  /\ bond.tag = "Ok"
  /\ tvargs.face_value = F(1000, 0)
  /\ tvargs.coupon_rate = F(7, -2)
  /\ tvargs.ytm = F(4, -2)
  /\ DOMAIN bond.val.cash_flows = 1..5
  /\ bond.val.cash_flows[1].amount = F(70, 0)
  /\ bond.val.cash_flows[5].amount = F(1070, 0)

\* (1 + rate)^n for the period count n itself, by squaring; an n of 2^31 or
\* more is split as x^(hi * 2^16 + lo) = (x^(2^16))^hi * x^lo
Power(x, n) ==
  IF n.hi < 32768 THEN PowiLoop(x, U32Value(n), F(1, 0))
  ELSE FMul(PowiLoop(PowiLoop(x, 65536, F(1, 0)), n.hi, F(1, 0)),
            PowiLoop(x, n.lo, F(1, 0)))

\* C18: for every present value pv >= 0, rate > -1 and period count n,
\* future_value(pv, rate, n) succeeds with fv = pv * (1 + rate)^n, and
\* present_value(fv, rate, n) succeeds and returns pv within 1e-10.
C18_Reciprocal ==
  (/\ fv.tag # "Pending"
   /\ FGe(tvargs.present_value, F(0, 0))
   /\ FGt(tvargs.interest_rate, F(-1, 0)))
  => /\ fv = Ok(FMul(tvargs.present_value,
                     Power(FAdd(F(1, 0), tvargs.interest_rate), tvargs.periods)))
     /\ calculated_pv.tag # "Pending" =>
          /\ calculated_pv.tag = "Ok"
          /\ FLt(abs(FSub(calculated_pv.val, tvargs.present_value)), F(1, -10))

\* C19: compound_amount returns InvalidMonetaryValue if principal < 0,
\* InvalidInterestRate if annual_rate < 0, and InvalidPeriods if time_years < 0
\* or frequency = 0, the first of these that applies in that order;
\* compound_interest returns the same error for the same arguments and
\* otherwise compound_amount - principal.
C19_CompoundRejection ==
  amount.tag # "Pending" =>
    LET BadPrincipal == FLt(tvargs.principal, F(0, 0))
        BadRate == FLt(tvargs.annual_rate, F(0, 0))
        BadPeriods == \/ FLt(tvargs.time_years, F(0, 0))
                      \/ tvargs.compounding_frequency = U32(0, 0)
    IN  /\ BadPrincipal => amount = Err("InvalidMonetaryValue")
        /\ ~BadPrincipal /\ BadRate => amount = Err("InvalidInterestRate")
        /\ ~BadPrincipal /\ ~BadRate /\ BadPeriods => amount = Err("InvalidPeriods")
        /\ interest.tag # "Pending" =>
             IF amount.tag = "Err" THEN interest = amount
             ELSE interest = Ok(FSub(amount.val, tvargs.principal))

\* a frequency of zero with a valid principal and rate: both functions have
\* returned InvalidPeriods
C19_Witness ==
  /\ interest.tag = "Err"
  /\ interest = Err("InvalidPeriods")
  /\ amount = Err("InvalidPeriods")
  /\ tvargs.principal = F(1000, 0)
  /\ tvargs.annual_rate = F(7, -2)
  /\ tvargs.compounding_frequency = U32(0, 0)

\* C21: when several preconditions of validate_inputs are violated at once the
\* reported kind is the first in the order (1) a non-finite argument ->
\* InvalidMonetaryValue, (2) S0 <= 0 or K <= 0 -> InvalidMonetaryValue,
\* (3) T < 0 -> InvalidPeriods, (4) sigma < 0 -> InvalidInterestRate; so
\* InvalidPeriods is returned only if all five arguments are finite and
\* S0, K > 0, InvalidInterestRate only if additionally T >= 0, and T = -inf or
\* sigma = NaN yields InvalidMonetaryValue.
C21_ErrorPrecedence ==
  LET AllFinite == \A x \in {args.s0, args.k, args.t, args.r, args.sigma} : is_finite(x)
      Prices == FGt(args.s0, F(0, 0)) /\ FGt(args.k, F(0, 0))
      First == IF ~AllFinite THEN 1
               ELSE IF FLe(args.s0, F(0, 0)) \/ FLe(args.k, F(0, 0)) THEN 2
               ELSE IF FLt(args.t, F(0, 0)) THEN 3
               ELSE IF FLt(args.sigma, F(0, 0)) THEN 4
               ELSE 0
      Kind == [i \in 1..4 |-> <<"InvalidMonetaryValue", "InvalidMonetaryValue",
                                "InvalidPeriods", "InvalidInterestRate">>[i]]
  IN  Returned(validated) =>
        /\ First # 0 => validated.res = Err(Kind[First])
        /\ validated.res = Err("InvalidPeriods") => AllFinite /\ Prices
        /\ validated.res = Err("InvalidInterestRate") =>
             AllFinite /\ Prices /\ FGe(args.t, F(0, 0))
        /\ (args.t = NEG_INFINITY \/ is_nan(args.sigma)) =>
             validated.res = Err("InvalidMonetaryValue")

\* three violations at once: T = -inf is non-finite and below 0, sigma is
\* below 0, and the spot price is not positive
C21_Witness ==
  /\ validated.res = Err("InvalidMonetaryValue")
  /\ args.t = NEG_INFINITY
  /\ FLt(args.sigma, F(0, 0))
  /\ FLe(args.s0, F(0, 0))

\* sigma * sqrt(T) of the current arguments
SigmaSqrtT == FMul(args.sigma, sqrt(args.t))

\* C22 as stated: every Ok((d1, d2)) returned by d1_d2 satisfies d1 >= d2;
\* d1 == d2 in both degenerate regimes; in the regular regime both are finite
\* for finite validated inputs, with d1 - d2 = sigma*sqrt(T) (here within 1e-9)
\* and d1 - d2 > 0.
C22_OrderingStrict ==
  (Returned(d1d2) /\ d1d2.res.tag = "Ok") =>
    LET d1 == d1d2.res.val[1]
        d2 == d1d2.res.val[2]
    IN  /\ FGe(d1, d2)
        /\ (AtExpiry \/ ZeroVol) => FEq(d1, d2)
        /\ Regular =>
             /\ is_finite(d1) /\ is_finite(d2)
             /\ Within(FSub(d1, d2), SigmaSqrtT, F(1, -9))
             /\ FGt(FSub(d1, d2), F(0, 0))

\* C22, amended: every Ok((d1, d2)) returned by d1_d2 whose d1 is not NaN
\* satisfies d1 >= d2; d1 == d2 in both degenerate regimes; in the regular
\* regime sigma*sqrt(T) > 0 and d2 is the rounded difference
\* d1 - sigma*sqrt(T), so that d1 - d2 is sigma*sqrt(T) only up to that
\* rounding (within 1e-14 * max(|d1|, |d2|)) and is 0 when sigma*sqrt(T) is
\* absorbed; both are finite when no intermediate result overflows and S0/K
\* does not underflow to 0.
C22_OrderingRounded ==
  (Returned(d1d2) /\ d1d2.res.tag = "Ok") =>
    LET d1 == d1d2.res.val[1]
        d2 == d1d2.res.val[2]
        q == FDiv(args.s0, args.k)
        x == FMul(FAdd(args.r, FMul(FMul(F(5, -1), args.sigma), args.sigma)), args.t)
        quot == FDiv(FAdd(ln(q), x), SigmaSqrtT)
        NoOverflow == /\ is_finite(q) /\ ~IsZero(q)
                      /\ is_finite(x)
                      /\ is_finite(FAdd(ln(q), x))
                      /\ is_finite(SigmaSqrtT)
                      /\ is_finite(quot)
                      /\ is_finite(FSub(quot, SigmaSqrtT))
    IN  /\ ~is_nan(d1) => FGe(d1, d2)
        /\ (AtExpiry \/ ZeroVol) => FEq(d1, d2)
        /\ Regular =>
             /\ FGt(SigmaSqrtT, F(0, 0))
             /\ d2 = FSub(d1, SigmaSqrtT)
             /\ (is_finite(d1) /\ is_finite(d2)) =>
                  /\ FGe(FSub(d1, d2), F(0, 0))
                  /\ Within(FSub(d1, d2), SigmaSqrtT,
                            FMul(F(1, -14), max(abs(d1), abs(d2))))
             /\ NoOverflow => is_finite(d1) /\ is_finite(d2)

\* a regular input whose sigma*sqrt(T) = 1e-12 is absorbed by d1 = 1.25e11
C22_Witness ==
  /\ Returned(d1d2) /\ d1d2.res.tag = "Ok" /\ Regular
  /\ args.s0 = F(100, 0) /\ args.k = F(100, 0) /\ args.t = F(1, 0)
  /\ args.r = F(125, -3) /\ args.sigma = F(1, -12)
  /\ d1d2.res.val[1] = F(125, 9)
  /\ d1d2.res.val[2] = F(125, 9)

\* C23: Bond::new_coupon_bond with periods = 0 and otherwise valid arguments
\* returns Ok with an empty cash-flow list; for that bond bond_price returns
\* Ok(0), and macaulay_duration, modified_duration and bond_convexity each
\* return Err(DivisionByZero).
C23_ZeroPeriodBond ==
  (/\ bond.tag # "Pending"
   /\ tvargs.periods = U32(0, 0)
   /\ FGt(tvargs.face_value, F(0, 0))
   /\ FGe(tvargs.coupon_rate, F(0, 0))
   /\ FGt(tvargs.ytm, F(-1, 0)))
  => /\ bond.tag = "Ok"
     /\ DOMAIN bond.val.cash_flows = {}
     /\ bond.val.ytm = tvargs.ytm
     /\ price.tag # "Pending" => price = Ok(F(0, 0))
     /\ macaulay.tag # "Pending" => macaulay = Err("DivisionByZero")
     /\ modified.tag # "Pending" => modified = Err("DivisionByZero")
     /\ convexity.tag # "Pending" => convexity = Err("DivisionByZero")
     /\ pc = "done" => /\ price.tag = "Ok" /\ macaulay.tag = "Err"
                       /\ modified.tag = "Err" /\ convexity.tag = "Err"

\* the bond of 1000 at 7% with no period, after all four measures were asked
C23_Witness ==
  /\ pc = "done"
  /\ bond.tag = "Ok"
  /\ tvargs.periods = U32(0, 0)
  /\ tvargs.face_value = F(1000, 0)
  /\ tvargs.coupon_rate = F(7, -2)
  /\ tvargs.ytm = F(4, -2)
  /\ price = Ok(F(0, 0))
  /\ convexity = Err("DivisionByZero")

\* 1 + interest_rate * time_years of the current arguments
Denominator == FAdd(F(1, 0), FMul(tvargs.interest_rate, tvargs.time_years))

\* C24 as stated: for every input with target_amount >= 0, interest_rate >= 0
\* and time_years >= 0 the denominator 1 + interest_rate*time_years is >= 1,
\* so simple_interest_principal does not return DivisionByZero and returns
\* Ok(target_amount / (1 + interest_rate*time_years)).
C24_DenominatorAtLeastOne ==
  (/\ simple_principal.tag # "Pending"
   /\ FGe(tvargs.target_amount, F(0, 0))
   /\ FGe(tvargs.interest_rate, F(0, 0))
   /\ FGe(tvargs.time_years, F(0, 0)))
  => /\ FGe(Denominator, F(1, 0))
     /\ simple_principal # Err("DivisionByZero")
     /\ simple_principal = Ok(FDiv(tvargs.target_amount, Denominator))

\* C24, amended: simple_interest_principal never returns DivisionByZero; for
\* every input that passes its three checks (none of target_amount,
\* interest_rate, time_years is below 0; a NaN passes) the denominator
\* 1 + interest_rate*time_years is >= 1 or NaN, NaN when interest_rate or
\* time_years is NaN or their product is inf * 0, and the call returns
\* Ok(target_amount / (1 + interest_rate*time_years)).
C24_NoDivisionByZero ==
  simple_principal.tag # "Pending" =>
    /\ simple_principal # Err("DivisionByZero")
    /\ (/\ ~FLt(tvargs.target_amount, F(0, 0))
        /\ ~FLt(tvargs.interest_rate, F(0, 0))
        /\ ~FLt(tvargs.time_years, F(0, 0)))
       => /\ FGe(Denominator, F(1, 0)) \/ is_nan(Denominator)
          /\ is_nan(Denominator) <=>
               \/ is_nan(tvargs.interest_rate) \/ is_nan(tvargs.time_years)
               \/ is_infinite(tvargs.interest_rate) /\ IsZero(tvargs.time_years)
               \/ IsZero(tvargs.interest_rate) /\ is_infinite(tvargs.time_years)
          /\ simple_principal = Ok(FDiv(tvargs.target_amount, Denominator))

\* 1000 at 50% over 2 years: the denominator is 2 and the principal 500
C24_Witness ==
  /\ simple_principal.tag = "Ok"
  /\ tvargs.target_amount = F(1000, 0)
  /\ tvargs.interest_rate = F(5, -1)
  /\ tvargs.time_years = F(2, 0)
  /\ simple_principal.val = F(500, 0)

====
